---- MODULE Spec2Model ----
(***************************************************************************)
(* samepic: Repository::new (src/repository.rs) as a state machine.        *)
(*                                                                         *)
(* Repository::new walks a source directory, loads every file in parallel  *)
(* (Image::load), filters all 2-combinations of the loaded images with the *)
(* match predicate in parallel, chains one self-pair per image behind the  *)
(* matched pairs, folds the pair list into piles in a single thread and    *)
(* computes the statistics of the final pile list.                         *)
(*                                                                         *)
(* Units: a timestamp is a number of seconds, a date a number of days.     *)
(* Indices of the pile vector are 0-based, as in the source.               *)
(***************************************************************************)
EXTENDS Integers, Sequences, FiniteSets, TLC

\* ------------------------------------------------------------------------
\* Bounds of the model.

\* Number of regular files the walker finds under the source directory.
NumFiles == 4

\* Number of rayon worker threads that evaluate the pair filter.
Workers == 2

\* Number of images whose pair list FoldSpec feeds to the fold in every order.
FoldFiles == 3

\* Number of images of the repository that create_piles is called on.
PileFiles == 3

\* Number of values of the key counter of a cache (2^32 in the source).
KeySpace == 4

\* Largest capacity a cache is created with.
MaxCapacity == 2

\* Number of calls of push that return.
MaxPushes == KeySpace + 1

\* ------------------------------------------------------------------------
\* Program constants.

\* l.hash.dist(&r.hash) < 10
HashThreshold == 10

\* chrono::Duration::minutes(30)
TimeWindowMinutes == 30

\* type HashType = [u8; 16]
HashBytes == 16

SecondsPerMinute == 60

SecondsPerDay == 86400

HashBits == HashBytes * 8

TimeWindow == TimeWindowMinutes * SecondsPerMinute

\* ------------------------------------------------------------------------
\* Sample inputs: what a file of the source directory can hold.  A hash is
\* the set of the positions of its one-bits.
\*   1: 23:30:00 of day 0, hash without one-bits
\*   2: 23:59:59 of day 0 (29:59 after 1), 9 bits away from 1
\*   3: 00:00:00 of day 1 (30:00 after 1, 1 s after 2), 10 bits away from 1,
\*      3 bits away from 2
\*   4: 00:00:00 of day 1, the hash of 1 (10 bits away from 3, 9 from 2)
\*   5: a file that cannot be read (std::fs::read fails)
\*   6: a file that reads but does not decode as an image
\*   7: a file that reads and whose first EXIF date field is well-formed but
\*      names no day of the calendar (0000:00:00 00:00:00, a month 13)
\* 1 and 2 match at the edge of both conditions, 2 and 3, 2 and 4 match; 1 and 4
\* fail on the time alone, 3 and 4 on the hash alone, 1 and 3 on both; two files
\* of the same kind match.
FileKinds ==
    << [readable |-> TRUE,  in_calendar |-> TRUE,  decodable |-> TRUE,
        timestamp |-> 84600,  hash |-> {}],
       [readable |-> TRUE,  in_calendar |-> TRUE,  decodable |-> TRUE,
        timestamp |-> 86399,  hash |-> 0..8],
       [readable |-> TRUE,  in_calendar |-> TRUE,  decodable |-> TRUE,
        timestamp |-> 86400,  hash |-> 1..10],
       [readable |-> TRUE,  in_calendar |-> TRUE,  decodable |-> TRUE,
        timestamp |-> 86400,  hash |-> {}],
       [readable |-> FALSE, in_calendar |-> TRUE,  decodable |-> FALSE,
        timestamp |-> 0,      hash |-> {}],
       [readable |-> TRUE,  in_calendar |-> TRUE,  decodable |-> FALSE,
        timestamp |-> 84600,  hash |-> {}],
       [readable |-> TRUE,  in_calendar |-> FALSE, decodable |-> TRUE,
        timestamp |-> 0,      hash |-> {}] >>

\* A file is identified by its path, and paths are only ever compared for
\* equality.  The first par_bridge loads the files on parallel workers and the
\* loads complete in an order that differs from run to run: the model names
\* the files by that order (file k is the k-th file whose load completes), so
\* the directories below cover every completion order of every directory.
Files == 1..NumFiles

\* The directories the model starts from: every assignment of kinds to files.
Directories == [Files -> 1..Len(FileKinds)]

VARIABLES
    dir,        \* file -> index of its kind in FileKinds (the source directory)
    pc,         \* position in Repository::new
    loaded,     \* number of files whose Image::load has completed
    images,     \* let images: Vec<Image>
    failed,     \* files whose Image::load returned Err (logged, skipped)
    next,       \* number of combinations the second par_bridge has pulled
    inflight,   \* combinations pulled by a worker, predicate not yet evaluated
    matched,    \* let piles: Vec<(&Image, &Image)>, the matched pairs
    consumed,   \* matched pairs the fold has already taken
    selfTaken,  \* positions of the images whose self-pair the fold has taken
    piles,      \* the accumulator of the fold: Vec<Pile>
    stats,      \* Stats::from_piles, <<>> until computed
    panic       \* the expression whose panic ended the run, "" if none

\* Repository::create_piles and the destination directory it writes to.
VARIABLES
    base_names,   \* path of a source file -> its file name (Utf8Path::file_name)
    destDirs,     \* names of the directories in the destination
    destLinks,    \* hard links in them: [dir, name, source]
    destInfo,     \* info.txt of the destination: "absent", "partial", "written"
    dates_counts, \* let mut dates_counts: HashMap<NaiveDate, usize>
    timestamps,   \* the value of `timestamp` in each iteration of the outer loop
    linked,       \* pictures of the current pile the inner loop has visited
    result        \* what create_piles has returned, if it has

\* The cache of lru.rs.
VARIABLES
    capacity,        \* the capacity the cache was created with
    cache,           \* self.cache: the entries [key, value] of lru::LruCache
    current_key,     \* self.current_key
    overflow_checks, \* the build panics on integer overflow (debug) or wraps
    returned,        \* the keys that push has returned, in the order of the calls
    recent,          \* the resident keys in the order of their latest access
    call             \* the latest call: its key, its value, the calls of f

\* A client of the cache that keeps to its contract and watches one key.
VARIABLES
    watch,    \* the key that is watched
    factory,  \* the value the closure f of the latest get_or_insert makes
    kept      \* the values pushed under the watched key that the cache still
              \* has to hold, the number of insertions of other keys and the
              \* other keys accessed since the latest access of the key

contractVars == << watch, factory, kept >>

\* The fold of the older engine (lib.rs, bin/gui.rs).
VARIABLES
    older_piles,  \* the accumulator of its fold: Vec<Pile>
    older_panic   \* the expression whose panic ended it, "" if none

olderVars == << older_piles, older_panic >>

\* Sort::run and the Open::run it calls.
VARIABLES
    sort_pc,      \* position in Sort::run
    dest_exists,  \* the destination directory exists
    no_open,      \* self.no_open
    sort_result,  \* what Sort::run has returned, if it has
    entries,      \* Open::run: the sorted entries the loop has not reached yet
    opened,       \* the directories the opener was run on, in order
    opener,       \* self.opener is Some: an opener program is given
    child         \* the directories whose opener process has not exited

\* The loaders of image.rs.
VARIABLES
    file,        \* the file a loader is applied to
    load_result  \* what the call has returned, if it has

loadVars == << file, load_result >>

\* Open::run as a command.
VARIABLES
    open_pc,     \* position in Open::run
    open_path,   \* the entries of self.path
    start_at,    \* self.start_at
    options,     \* self.options: an opener program is given, skip_singles
    open_iter,   \* the entries the loop has not reached yet
    shown,       \* the directories given to the opener, in order
    running,     \* the directories whose opener process has not exited
    open_result  \* what Open::run has returned, if it has

openVars == << open_pc, open_path, start_at, options, open_iter, shown, running, open_result >>

\* Collect::run.
VARIABLES
    collect_pc,     \* position in Collect::run
    source_files,   \* the entries of the source tree in the order of the loops
    keep_names,     \* self.keep_names
    no_delete,      \* self.no_delete
    final_links,    \* the names in the destination, in the order of their creation
    collected,      \* the entries of the source tree the loops have passed
    source_state,   \* the source tree: "present", "partial", "removed"
    collect_result  \* what Collect::run has returned, if it has

collectVars == << collect_pc, source_files, keep_names, no_delete, final_links, collected,
                  source_state, collect_result >>

\* The variables of the commands other than sort.
restVars == << loadVars, openVars, collectVars, contractVars, olderVars >>

sortVars == << sort_pc, dest_exists, no_open, sort_result, entries, opened, opener, child >>

repositoryData == << dir, pc, loaded, images, failed, next, inflight, matched,
                     consumed, selfTaken, piles, stats >>

repositoryVars == << repositoryData, panic >>

cacheVars == << capacity, cache, current_key, overflow_checks, returned, recent, call >>

createPilesVars == << base_names, destDirs, destLinks, destInfo, dates_counts,
                      timestamps, linked, result >>

vars == << repositoryVars, createPilesVars, cacheVars, sortVars, restVars >>

\* ------------------------------------------------------------------------
\* image.rs

\* Image::load: Err when the file cannot be read or does not decode; between
\* the two parse_time_stamp panics in NaiveDate::from_ymd(..).and_hms(..) on
\* an EXIF date that is not in the calendar.
LoadResult(path, kind) ==
    IF ~kind.readable THEN [ok |-> FALSE, err |-> "IoError"]
    ELSE IF ~kind.in_calendar THEN [ok |-> FALSE, err |-> "panic"]
    ELSE IF ~kind.decodable THEN [ok |-> FALSE, err |-> "InvalidImage"]
    ELSE [ok |-> TRUE,
          image |-> [path |-> path, timestamp |-> kind.timestamp, hash |-> kind.hash]]

\* impl PartialEq for Image: equality is equality of the paths.
ImageEq(a, b) == a.path = b.path

\* NaiveDateTime::date
DateOf(timestamp) == timestamp \div SecondsPerDay

\* ImageHash::dist: the number of bit positions in which two hashes differ.
Dist(h1, h2) == Cardinality((h1 \ h2) \cup (h2 \ h1))

\* ------------------------------------------------------------------------
\* pile.rs

\* HashSet<Image>::contains
Contains(pictures, image) == \E p \in pictures : ImageEq(p, image)

\* A faulty insert: the set is left as it was.
InsertDropped(pictures, image) == pictures

\* HashSet<Image>::insert: an element equal to the new one is kept.
Insert(pictures, image) ==
    IF Contains(pictures, image) THEN pictures ELSE pictures \cup {image}

\* A faulty extend: the set is replaced by the other set.
ExtendReplaced(pictures, other) == other

\* HashSet<Image>::extend
Extend(pictures, other) ==
    pictures \cup { x \in other : ~Contains(pictures, x) }

MinOf(S) == CHOOSE m \in S : \A x \in S : m <= x

MaxOf(S) == CHOOSE m \in S : \A x \in S : m >= x

\* The expect("computing pile date") of Pile::update_date panics on a pile
\* without pictures.
UpdateDatePanics(pile) == pile.pictures = {}

\* Pile::update_date
UpdateDate(pile) ==
    IF UpdateDatePanics(pile) THEN pile
    ELSE [pile EXCEPT !.date = MinOf({ DateOf(p.timestamp) : p \in pile.pictures })]

\* Pile::new
PileNew(image) == [pictures |-> {image}, date |-> DateOf(image.timestamp)]

\* A faulty push: the image is inserted and the date is left as it was.
PilePushStaleDate(pile, image) ==
    [pile EXCEPT !.pictures = Insert(@, image)]

\* Pile::push
PilePush(pile, image) ==
    UpdateDate([pile EXCEPT !.pictures = Insert(@, image)])

\* A faulty merge: the pictures are united and the date is left as it was.
PileMergeStaleDate(pile, other) ==
    [pile EXCEPT !.pictures = Extend(@, other.pictures)]

\* Pile::merge
PileMerge(pile, other) ==
    UpdateDate([pile EXCEPT !.pictures = Extend(@, other.pictures)])

\* ------------------------------------------------------------------------
\* repository.rs: the pair filter

\* fn abs(duration)
Abs(duration) == IF duration < 0 THEN 0 - duration ELSE duration

\* A faulty filter: the timestamps are not compared.
MatchesByHash(l, r) == Dist(l.hash, r.hash) < HashThreshold


\* A faulty filter: both comparisons admit the bound itself.
MatchesInclusive(l, r) ==
    LET time_delta == Abs(l.timestamp - r.timestamp)
    IN  time_delta <= TimeWindow /\ Dist(l.hash, r.hash) <= HashThreshold

\* The closure of the filter.
Matches(l, r) ==
    LET time_delta == Abs(l.timestamp - r.timestamp)
    IN  time_delta < TimeWindow /\ Dist(l.hash, r.hash) < HashThreshold

RECURSIVE CombinationsFrom(_, _, _)
CombinationsFrom(i, j, n) ==
    IF i >= n THEN << >>
    ELSE IF j > n THEN CombinationsFrom(i + 1, i + 2, n)
    ELSE << <<i, j>> >> \o CombinationsFrom(i, j + 1, n)

\* images.iter().tuple_combinations(): the pairs of positions <<i, j>>, i < j,
\* in lexicographic order.
TupleCombinations(n) == CombinationsFrom(1, 2, n)

\* A faulty pair list: nothing is chained behind the matched pairs.
SelfPairsOmitted(imgs) == << >>

\* images.par_iter().map(|i| (i, i)): one self-pair per image, in the order
\* of the images; chain puts them behind the matched pairs.
SelfPairs(imgs) == [k \in 1..Len(imgs) |-> <<k, k>>]

\* ------------------------------------------------------------------------
\* repository.rs: the fold

\* A faulty search: every image is found in the first pile.
PositionFirst(ps, image) == IF Len(ps) = 0 THEN 0 - 1 ELSE 0


\* piles.iter().position(|pile| pile.pictures.contains(image)); -1 is None.
Position(ps, image) ==
    LET hits == { k \in 0..(Len(ps) - 1) : Contains(ps[k + 1].pictures, image) }
    IN  IF hits = {} THEN 0 - 1 ELSE MinOf(hits)

\* A faulty removal: the pile at index j is cloned and stays in the vector.
SwapRemoveCloned(ps, j) == ps

\* A faulty removal: the pictures of the pile at index j are taken out and the
\* emptied pile stays in the vector.
SwapRemoveTaken(ps, j) == [ps EXCEPT ![j + 1].pictures = {}]

\* Vec::swap_remove(j): the last element takes the place of element j.
SwapRemove(ps, j) ==
    LET last == Len(ps)
    IN  IF j + 1 = last THEN SubSeq(ps, 1, last - 1)
        ELSE SubSeq([ps EXCEPT ![j + 1] = ps[last]], 1, last - 1)

\* A faulty index: i is used as it was before the removal.
PileIndexStale(i, j, len) == i

\* let pile_index = if i == piles.len() { j } else { i };
PileIndex(i, j, len) == IF i = len THEN j ELSE i

\* A faulty merge step: two different piles are left as they are.
MergePilesSkipped(ps, i, j) == ps

\* (Some(i), Some(j)), i != j: the piles after the step.
MergePiles(ps, i, j) ==
    LET disbanding_pile == ps[j + 1]
        rest == SwapRemove(ps, j)
        pile_index == PileIndex(i, j, Len(rest))
    IN  IF pile_index >= Len(rest) THEN rest
        ELSE [rest EXCEPT ![pile_index + 1] = PileMerge(@, disbanding_pile)]

\* The panic of the merge step, "" if it does not panic.
MergePanic(ps, i, j) ==
    LET rest == SwapRemove(ps, j)
        pile_index == PileIndex(i, j, Len(rest))
    IN  IF pile_index >= Len(rest) THEN "piles[pile_index]"
        ELSE IF UpdateDatePanics([rest[pile_index + 1] EXCEPT
                                    !.pictures = Extend(@, ps[j + 1].pictures)])
             THEN "computing pile date"
        ELSE ""

\* The closure of the fold: the pile vector after the pair (l, r).
FoldPiles(ps, l, r) ==
    LET left_pile == Position(ps, l)
        right_pile == Position(ps, r)
    IN  IF left_pile < 0 /\ right_pile < 0
            THEN Append(ps, PilePush(PileNew(r), l))
        ELSE IF right_pile < 0
            THEN [ps EXCEPT ![left_pile + 1] = PilePush(@, r)]
        ELSE IF left_pile < 0
            THEN [ps EXCEPT ![right_pile + 1] = PilePush(@, l)]
        ELSE IF left_pile # right_pile
            THEN MergePiles(ps, left_pile, right_pile)
        ELSE ps

\* The panic of one step of the fold, "" if it does not panic.
FoldPanic(ps, l, r) ==
    LET left_pile == Position(ps, l)
        right_pile == Position(ps, r)
    IN  IF left_pile >= 0 /\ right_pile >= 0 /\ left_pile # right_pile
            THEN MergePanic(ps, left_pile, right_pile)
        ELSE ""

\* ------------------------------------------------------------------------
\* lib.rs, bin/gui.rs: the fold of the older engine

\* .filter(|(l, r)| l.hash.dist(&r.hash) < 20)
OlderThreshold == 20

OlderMatches(l, r) == Dist(l.hash, r.hash) < OlderThreshold

\* (Some(i), Some(j)), i != j: let disbanding_pile = piles.swap_remove(j);
\* piles[i].merge(disbanding_pile); the piles after the step.
OlderMergePiles(ps, i, j) ==
    LET disbanding_pile == ps[j + 1]
        rest == SwapRemove(ps, j)
    IN  IF i >= Len(rest) THEN rest
        ELSE [rest EXCEPT ![i + 1] = PileMerge(@, disbanding_pile)]

\* The panic of the step, "" if it does not panic.
OlderMergePanic(ps, i, j) ==
    IF i >= Len(SwapRemove(ps, j)) THEN "piles[i]" ELSE ""

\* The closure of the older fold: the pile vector after the pair (l, r).
OlderFoldPiles(ps, l, r) ==
    LET left_pile == Position(ps, l)
        right_pile == Position(ps, r)
    IN  IF left_pile < 0 /\ right_pile < 0
            THEN Append(ps, PilePush(PileNew(r), l))
        ELSE IF right_pile < 0
            THEN [ps EXCEPT ![left_pile + 1] = PilePush(@, r)]
        ELSE IF left_pile < 0
            THEN [ps EXCEPT ![right_pile + 1] = PilePush(@, l)]
        ELSE IF left_pile # right_pile
            THEN OlderMergePiles(ps, left_pile, right_pile)
        ELSE ps

\* The panic of one step of the older fold, "" if it does not panic.
OlderFoldPanic(ps, l, r) ==
    LET left_pile == Position(ps, l)
        right_pile == Position(ps, r)
    IN  IF left_pile >= 0 /\ right_pile >= 0 /\ left_pile # right_pile
            THEN OlderMergePanic(ps, left_pile, right_pile)
        ELSE ""

\* The pairs the older fold takes, in their order: the iterators are
\* sequential, the combinations that pass the filter come in the order of
\* tuple_combinations and the self-pairs follow.
OlderPairs(imgs) ==
    LET passes(c) == OlderMatches(imgs[c[1]], imgs[c[2]])
    IN  SelectSeq(TupleCombinations(Len(imgs)), passes) \o SelfPairs(imgs)

\* The values of the variables of the older fold where it does not run.
OlderIdle ==
    /\ older_piles = << >>
    /\ older_panic = ""

\* ------------------------------------------------------------------------
\* repository.rs: Stats::from_piles

RECURSIVE SumSizes(_)
SumSizes(ps) == IF ps = << >> THEN 0 ELSE Cardinality(Head(ps).pictures) + SumSizes(Tail(ps))

\* A faulty median: the element below index k of the sorted sizes.
SortedSizeBelow(ps, k) ==
    LET size(n) == Cardinality(ps[n].pictures)
        rank(n) == Cardinality({ m \in 1..Len(ps) :
                        size(m) < size(n) \/ (size(m) = size(n) /\ m < n) })
        below == IF k > 0 THEN k - 1 ELSE 0
    IN  size(CHOOSE n \in 1..Len(ps) : rank(n) = below)

\* The k-th smallest pile size, k 0-based: sorted_piles[k].
SortedSize(ps, k) ==
    LET size(n) == Cardinality(ps[n].pictures)
        rank(n) == Cardinality({ m \in 1..Len(ps) :
                        size(m) < size(n) \/ (size(m) = size(n) /\ m < n) })
    IN  size(CHOOSE n \in 1..Len(ps) : rank(n) = k)

\* minmax over the timestamps of a pile: max - min, zero for fewer than two.
TimeSpread(pile) ==
    LET ts == { p.timestamp : p \in pile.pictures }
    IN  IF Cardinality(pile.pictures) < 2 THEN 0 ELSE MaxOf(ts) - MinOf(ts)

\* sorted_piles[sorted_piles.len() / 2] indexes an empty vector when there is
\* no pile.
StatsPanics(ps) == Len(ps) = 0

StatsFromPiles(ps) ==
    [ total_pics |-> SumSizes(ps),
      total_piles |-> Len(ps),
      avg_pile_size |-> << SumSizes(ps), Len(ps) >>,
      median_pile_size |-> SortedSize(ps, Len(ps) \div 2),
      max_pile_size |-> MaxOf({ Cardinality(ps[n].pictures) : n \in 1..Len(ps) } \cup {0}),
      longest_time_delta |->
          MaxOf({ TimeSpread(ps[n]) : n \in 1..Len(ps) } \cup {0}) \div SecondsPerMinute ]

\* ------------------------------------------------------------------------
\* repository.rs: Repository::create_piles

\* {n:04}: the decimal digits of n, padded with zeros up to the width.
SequenceWidth == 4

RECURSIVE ZeroPadded(_, _)
ZeroPadded(digits, width) ==
    IF Len(digits) >= width THEN digits ELSE ZeroPadded("0" \o digits, width)

IsLeapYear(y) == (y % 4 = 0 /\ y % 100 # 0) \/ y % 400 = 0

DaysInYear(y) == IF IsLeapYear(y) THEN 366 ELSE 365

DaysInMonth(y, m) ==
    IF m = 2 THEN (IF IsLeapYear(y) THEN 29 ELSE 28)
    ELSE IF m \in {4, 6, 9, 11} THEN 30 ELSE 31

\* The days of the n years after a year that is a multiple of 400.
DaysInCycle(n) == 365 * n + n \div 4 - n \div 100 + n \div 400

\* The days from 1970-01-01 to the first day of the year.
DaysToYear(y) == DaysInCycle(y - 1) - DaysInCycle(1969)

\* The days from the first day of the year to the first day of the month.
RECURSIVE DaysToMonth(_, _)
DaysToMonth(y, m) ==
    IF m = 1 THEN 0 ELSE DaysToMonth(y, m - 1) + DaysInMonth(y, m - 1)

\* The year of a day counted from 1970-01-01; 400 years have
\* DaysInCycle(400) days, which gives the year but for one.
YearOfDay(date) ==
    LET cycle == DaysInCycle(400)
        guess == 1970 + 400 * (date \div cycle) + ((date % cycle) * 400) \div cycle
    IN  CHOOSE y \in (guess - 1)..(guess + 1) :
            DaysToYear(y) <= date /\ date < DaysToYear(y + 1)

\* The calendar date <<year, month, day>> of the day that lies `days` days
\* after the first day of month m of year y (before it for days < 0), in
\* the proleptic Gregorian calendar.
CalendarFrom(y, m, days) ==
    LET date == DaysToYear(y) + DaysToMonth(y, m) + days
        year == YearOfDay(date)
        ordinal == date - DaysToYear(year)
        month == CHOOSE n \in 1..12 :
                    /\ DaysToMonth(year, n) <= ordinal
                    /\ ordinal < DaysToMonth(year, n) + DaysInMonth(year, n)
    IN  << year, month, ordinal - DaysToMonth(year, month) + 1 >>

\* The year of the Display of NaiveDate: four digits for the years 0 to
\* 9999, the sign and at least four digits for the others.
YearDisplay(y) ==
    IF y < 0 THEN "-" \o ZeroPadded(ToString(0 - y), 4)
    ELSE IF y > 9999 THEN "+" \o ToString(y)
    ELSE ZeroPadded(ToString(y), 4)

\* Display of NaiveDate: %Y-%m-%d.
DateDisplay(date) ==
    LET ymd == CalendarFrom(1970, 1, date)
    IN  YearDisplay(ymd[1]) \o "-" \o ZeroPadded(ToString(ymd[2]), 2)
            \o "-" \o ZeroPadded(ToString(ymd[3]), 2)

\* A faulty counter: the first pile of a date counts itself.
EntryCountFromOne(counts, date) ==
    IF date \in DOMAIN counts THEN counts[date] + 1 ELSE 1

\* *dates_counts.entry(date).and_modify(|e| *e += 1).or_default(): the value
\* of the entry after the call.
EntryCount(counts, date) ==
    IF date \in DOMAIN counts THEN counts[date] + 1 ELSE 0

\* The map after the call.
EntryCounted(counts, date) ==
    [d \in DOMAIN counts \cup {date} |->
        IF d = date THEN EntryCount(counts, date) ELSE counts[d]]

\* format!("{}_{n:04}", pile.date())
Timestamp(date, n) ==
    DateDisplay(date) \o "_" \o ZeroPadded(ToString(n), SequenceWidth)

\* image.path().file_name(): "" stands for None.
FileName(path) == base_names[path]

\* What create_piles has returned.  An error has the call that failed and the
\* source paths its message names.
NotCalled == [state |-> "idle", op |-> "", paths |-> {}]

Running == [state |-> "running", op |-> "", paths |-> {}]

ReturnedOk == [state |-> "ok", op |-> "", paths |-> {}]

\* A std::io::Error turned into a Report by `?`: the message of the operating
\* system, without any path.
IoError(op) == [state |-> "err", op |-> op, paths |-> {}]

\* wrap_err_with(|| format!("Invalid image file name for path {}", image.path()))
InvalidFileName(image) == [state |-> "err", op |-> "file_name", paths |-> {image.path}]

\* A faulty `?`: the error is dropped and the function goes on.
TryIgnored(ok, error) == Running

\* The operator `?`: the function returns the error at once.
Try(ok, error) == IF ok THEN Running ELSE error

\* The pile of the current iteration of the outer loop.
CurrentPile == piles[Len(timestamps)]

\* The inner loop has visited every picture of the current pile.
PileDone ==
    IF Len(timestamps) = 0 THEN TRUE ELSE linked = CurrentPile.pictures

\* A faulty check: no link name is ever taken, a link replaces the old one.
LinkExistsNever(d, name) == FALSE


\* The link name is taken in the directory.
LinkExists(d, name) == \E l \in destLinks : l.dir = d /\ l.name = name

\* One iteration of the outer loop up to fs::create_dir(&dir)?.  The call
\* fails when the directory exists, and when the system refuses it.
CreateDir ==
    /\ result.state = "running"
    /\ PileDone
    /\ Len(timestamps) < Len(piles)
    /\ LET pile == piles[Len(timestamps) + 1]
           timestamp == Timestamp(pile.date, EntryCount(dates_counts, pile.date))
       IN  /\ dates_counts' = EntryCounted(dates_counts, pile.date)
           /\ timestamps' = Append(timestamps, timestamp)
           /\ \E refused \in BOOLEAN :
                LET ok == timestamp \notin destDirs /\ ~refused
                IN  /\ destDirs' = IF ok THEN destDirs \cup {timestamp} ELSE destDirs
                    /\ result' = Try(ok, IoError("create_dir"))
    /\ linked' = {}
    /\ UNCHANGED << repositoryVars, cacheVars, restVars, sortVars, base_names, destLinks, destInfo >>

\* One iteration of the inner loop: the pictures of the HashSet come in any
\* order.  fs::hard_link fails when the link name is taken, when its directory
\* is missing, and when the system refuses it.
HardLink(image) ==
    /\ result.state = "running"
    /\ Len(timestamps) > 0
    /\ image \in CurrentPile.pictures \ linked
    /\ linked' = linked \cup {image}
    /\ LET d == timestamps[Len(timestamps)]
           name == FileName(image.path)
       IN  IF name = ""
           THEN /\ result' = InvalidFileName(image)
                /\ UNCHANGED destLinks
           ELSE \E refused \in BOOLEAN :
                  LET ok == d \in destDirs /\ ~LinkExists(d, name) /\ ~refused
                  IN  /\ destLinks' =
                           IF ok THEN destLinks \cup
                                        {[dir |-> d, name |-> name, source |-> image.path]}
                           ELSE destLinks
                      /\ result' = Try(ok, IoError("hard_link"))
    /\ UNCHANGED << repositoryVars, cacheVars, restVars, sortVars, base_names, destDirs, destInfo, dates_counts,
                    timestamps >>

\* self.stats.save_to_file(dest) after the loop: File::create may fail, and a
\* writeln! may fail on the created file; the error is wrapped with the
\* destination.  Then create_piles returns Ok.
SaveToFile ==
    /\ result.state = "running"
    /\ PileDone
    /\ Len(timestamps) = Len(piles)
    /\ \E outcome \in {"written", "partial", "absent"} :
         /\ destInfo' = IF outcome = "absent" THEN destInfo ELSE outcome
         /\ result' = IF Try(outcome = "written", IoError("save_to_file")) = Running
                      THEN ReturnedOk
                      ELSE IoError("save_to_file")
    /\ UNCHANGED << repositoryVars, cacheVars, restVars, sortVars, base_names, destDirs, destLinks, dates_counts,
                    timestamps, linked >>

\* The values of the variables of create_piles while it is not called.
CreatePilesIdle ==
    /\ base_names = << >>
    /\ destDirs = {}
    /\ destLinks = {}
    /\ destInfo = "absent"
    /\ dates_counts = << >>
    /\ timestamps = << >>
    /\ linked = {}
    /\ result = NotCalled

\* ------------------------------------------------------------------------
\* lru.rs

\* Key::new
KeyNew == 0

\* self.0 + 1 leaves the range of the counter.
KeyNextOverflows(key) == key + 1 > KeySpace - 1

\* Key::next, where the addition wraps.
KeyNext(key) == (key + 1) % KeySpace

\* The keys of the entries of a cache.  lru::LruCache keeps its entries in the
\* order of their use: the sequence has the most recently used entry first.
KeysOf(c) == { c[n].key : n \in 1..Len(c) }

\* The position of the entry of key k.
IndexOf(c, k) == CHOOSE n \in 1..Len(c) : c[n].key = k

\* The cache without the entry at position n.
Without(c, n) == SubSeq(c, 1, n - 1) \o SubSeq(c, n + 1, Len(c))

\* A faulty eviction: the most recently used entry goes.
EvictMostRecent(c) == Tail(c)

\* The least recently used entry goes.
Evict(c) == SubSeq(c, 1, Len(c) - 1)

\* A cache that never evicts.
MakeRoomNever(c, cap) == c

\* A full cache evicts before a new entry comes in.
MakeRoom(c, cap) == IF Len(c) >= cap THEN Evict(c) ELSE c

\* A faulty lookup: the value of the factory replaces the stored one.
StoredReplaced(c, k, made) == made

\* The value stored under a resident key; made is what the factory would make.
Stored(c, k, made) == c[IndexOf(c, k)].value

\* lru::LruCache::push: the entry of a resident key is replaced and becomes
\* the most recently used; a cache of capacity zero keeps nothing.
LruPush(c, cap, k, v) ==
    IF k \in KeysOf(c) THEN << [key |-> k, value |-> v] >> \o Without(c, IndexOf(c, k))
    ELSE IF cap = 0 THEN c
    ELSE << [key |-> k, value |-> v] >> \o MakeRoom(c, cap)

\* A faulty lookup: a hit leaves the entry where it is in the order of use.
LruGetOrInsertUnmoved(c, cap, k, made) ==
    IF k \in KeysOf(c)
    THEN c
    ELSE << [key |-> k, value |-> made] >> \o MakeRoom(c, cap)

\* lru::LruCache::get_or_insert on a cache of capacity above zero.
LruGetOrInsert(c, cap, k, made) ==
    IF k \in KeysOf(c)
    THEN << [key |-> k, value |-> Stored(c, k, made)] >> \o Without(c, IndexOf(c, k))
    ELSE << [key |-> k, value |-> made] >> \o MakeRoom(c, cap)

\* The resident keys in the order of their latest access, after an access to
\* k that left the cache as c.
Touched(keys, k, c) ==
    LET resident(x) == x \in KeysOf(c)
        other(x) == x # k
    IN  SelectSeq(<< k >> \o SelectSeq(keys, other), resident)

\* LruCache::new
CacheNew(cap) ==
    /\ capacity = cap
    /\ cache = << >>
    /\ current_key = KeyNew
    /\ returned = << >>
    /\ recent = << >>
    /\ call = [op |-> "new", key |-> 0, value |-> "", f_calls |-> 0]

\* LruCache::push.  The value is in the cache when key.next() is evaluated:
\* with overflow checks the addition panics at the last key, without them it
\* wraps.
CachePush(value) ==
    /\ panic = ""
    /\ Len(returned) < MaxPushes
    /\ cache' = LruPush(cache, capacity, current_key, value)
    /\ recent' = Touched(recent, current_key, cache')
    /\ call' = [op |-> "push", key |-> current_key, value |-> value, f_calls |-> 0]
    /\ IF KeyNextOverflows(current_key) /\ overflow_checks
       THEN /\ panic' = "attempt to add with overflow"
            /\ UNCHANGED << current_key, returned >>
       ELSE /\ current_key' = KeyNext(current_key)
            /\ returned' = Append(returned, current_key)
            /\ UNCHANGED panic
    /\ UNCHANGED << repositoryData, createPilesVars, sortVars, loadVars, openVars, collectVars,
                    olderVars, capacity, overflow_checks >>

\* LruCache::get_or_insert; made is the value the factory f returns when it is
\* called.  lru::LruCache::get_or_insert returns None on a cache of capacity
\* zero, on which expect panics.
CacheGetOrInsert(k, made) ==
    /\ panic = ""
    /\ IF capacity = 0
       THEN /\ panic' = "zero sized cache"
            /\ \E n \in {0, 1} :
                 call' = [op |-> "get_or_insert", key |-> k, value |-> "", f_calls |-> n]
            /\ UNCHANGED << cache, recent >>
       ELSE /\ cache' = LruGetOrInsert(cache, capacity, k, made)
            /\ recent' = Touched(recent, k, cache')
            /\ call' = [op |-> "get_or_insert", key |-> k, value |-> cache'[1].value,
                        f_calls |-> IF k \in KeysOf(cache) THEN 0 ELSE 1]
            /\ UNCHANGED panic
    /\ UNCHANGED << repositoryData, createPilesVars, sortVars, loadVars, openVars, collectVars,
                    olderVars, capacity, current_key, returned, overflow_checks >>

\* The values of the variables of the cache where no cache is used.
CacheIdle ==
    /\ overflow_checks = FALSE
    /\ CacheNew(0)

\* No value pushed under the watched key has to be held.
Forgotten == [values |-> {}, inserted |-> 0, touched |-> {}]

\* The values of the variables of the client where no key is watched.
ContractIdle ==
    /\ watch = 0
    /\ factory = ""
    /\ kept = Forgotten

\* ------------------------------------------------------------------------
\* bin/samepic: common.rs, sort.rs, open.rs

\* The entries of the destination directory.
InfoFile == "info.txt"

DestEntries == destDirs \cup (IF destInfo = "absent" THEN {} ELSE {InfoFile})

\* The names that occur in a destination, in the order of their bytes.
PathOrder ==
    << "1970-01-01_0000", "1970-01-01_0001", "1970-01-01_0002", "1970-01-01_0003",
       "1970-01-01_0004", "1970-01-02_0000", "1970-01-02_0001", "1970-01-02_0002",
       "1970-01-02_0003", "1970-01-02_0004", "info.txt" >>

\* entries.sort_unstable_by_key(|e| e.path())
SortedByPath(names) ==
    LET present(x) == x \in names
    IN  SelectSeq(PathOrder, present)

\* What Sort::run has returned.
SortPending == [state |-> "running", message |-> ""]

SortOk == [state |-> "ok", message |-> ""]

SortErr(message) == [state |-> "err", message |-> message]

\* A faulty Sort::run: the result of the validation is not looked at.
AfterValidationAlways(res) == "new"

\* create_dir_from_ref_name(..)?: Sort::run goes on to Repository::new only
\* with a validated destination.
AfterValidation(res) == IF res.state = "err" THEN "returned" ELSE "new"

\* The result of create_dir_from_ref_name: create_dir_all creates a missing
\* directory and may be refused, read_dir may be refused, and a directory
\* with an entry is rejected.
Validation(exists, found, create_refused, read_refused) ==
    IF ~exists /\ create_refused THEN SortErr("Cannot create directory")
    ELSE IF read_refused THEN SortErr("read_dir")
    ELSE IF found # {} THEN SortErr("Target directory not empty.")
    ELSE SortPending

\* Sort::run up to the call of Repository::new.
CreateDirFromRefName ==
    /\ sort_pc = "validate"
    /\ \E create_refused \in BOOLEAN : \E read_refused \in BOOLEAN :
         LET res == Validation(dest_exists, DestEntries, create_refused, read_refused)
         IN  /\ dest_exists' = (dest_exists \/ ~create_refused)
             /\ sort_result' = res
             /\ sort_pc' = AfterValidation(res)
             /\ pc' = IF AfterValidation(res) = "new" THEN "load" ELSE pc
    /\ UNCHANGED << dir, loaded, images, failed, next, inflight, matched, consumed,
                    selfTaken, piles, stats, panic, createPilesVars, cacheVars, restVars,
                    no_open, entries, opened, opener, child >>

\* repo.create_piles(&destination) is called when Repository::new has returned.
CallCreatePiles ==
    /\ sort_pc = "new"
    /\ pc = "done" /\ panic = ""
    /\ sort_pc' = "create_piles"
    /\ result' = Running
    /\ UNCHANGED << repositoryVars, cacheVars, restVars, base_names, destDirs, destLinks, destInfo,
                    dates_counts, timestamps, linked, dest_exists, no_open,
                    sort_result, entries, opened, opener, child >>

\* create_piles has returned: its error is returned, and without --no-open
\* Open::run reads and sorts the entries of the destination.
AfterCreatePiles ==
    /\ sort_pc = "create_piles"
    /\ result.state \in {"ok", "err"}
    /\ IF result.state = "err"
       THEN /\ sort_result' = SortErr(result.op)
            /\ sort_pc' = "returned"
            /\ UNCHANGED entries
       ELSE IF no_open
       THEN /\ sort_result' = SortOk
            /\ sort_pc' = "returned"
            /\ UNCHANGED entries
       ELSE \E read_refused \in BOOLEAN :
              IF read_refused
              THEN /\ sort_result' = SortErr("Open::run read_dir")
                   /\ sort_pc' = "returned"
                   /\ UNCHANGED entries
              ELSE /\ entries' = SortedByPath(DestEntries)
                   /\ sort_pc' = "open"
                   /\ UNCHANGED sort_result
    /\ UNCHANGED << repositoryVars, createPilesVars, cacheVars, restVars, dest_exists, no_open,
                    opened, opener, child >>

\* The panics of fn pause, in the order of its statements: the expect of
\* stdout.write_all, the expect of stdout.flush, the unwrap of stdin.read.
PausePanics == { "failed to write to stdout", "failed to flush stdout", "stdin.read" }

\* What ends Sort::run without a return: the panic of an unwrap or expect.
SortPanic(message) == [state |-> "panic", message |-> message]

\* One iteration of the loop of Open::run up to the opener: an entry that is
\* not a directory is skipped; for a directory the opener program is spawned,
\* or the default program is asked to open it; the error of an opener that
\* cannot be started is returned.
OpenEntry ==
    /\ sort_pc = "open"
    /\ entries # << >>
    /\ entries' = Tail(entries)
    /\ IF Head(entries) \notin destDirs
       THEN UNCHANGED << opened, child, sort_result, sort_pc >>
       ELSE \E refused \in BOOLEAN :
              IF refused
              THEN /\ sort_result' = SortErr("opener")
                   /\ sort_pc' = "returned"
                   /\ UNCHANGED << opened, child >>
              ELSE /\ opened' = Append(opened, Head(entries))
                   /\ child' = IF opener THEN child \cup {Head(entries)} ELSE child
                   /\ sort_pc' = IF opener THEN "wait" ELSE "pause"
                   /\ UNCHANGED sort_result
    /\ UNCHANGED << repositoryVars, createPilesVars, cacheVars, restVars, dest_exists, no_open,
                    opener >>

\* The opener process of a directory exits.
OpenerExit(name) ==
    /\ name \in child
    /\ child' = child \ {name}
    /\ UNCHANGED << repositoryVars, createPilesVars, cacheVars, restVars, sort_pc, dest_exists,
                    no_open, sort_result, entries, opened, opener >>

\* child.wait()? of spawn_process returns when the opener process has ended:
\* Ok, or the error of the wait, which Open::run and Sort::run return.
SpawnProcessWait ==
    /\ sort_pc = "wait"
    /\ opened[Len(opened)] \notin child
    /\ \E refused \in BOOLEAN :
         IF refused
         THEN /\ sort_result' = SortErr("wait")
              /\ sort_pc' = "returned"
         ELSE /\ sort_pc' = "open"
              /\ UNCHANGED sort_result
    /\ UNCHANGED << repositoryVars, createPilesVars, cacheVars, restVars, dest_exists, no_open,
                    entries, opened, opener, child >>

\* fn pause after opener::open: the prompt is written to stdout and flushed,
\* and a byte is read from stdin; the first of the three that fails panics.
PauseAfterOpen ==
    /\ sort_pc = "pause"
    /\ \E failure \in PausePanics \cup {""} :
         IF failure # ""
         THEN /\ sort_result' = SortPanic(failure)
              /\ sort_pc' = "returned"
         ELSE /\ sort_pc' = "open"
              /\ UNCHANGED sort_result
    /\ UNCHANGED << repositoryVars, createPilesVars, cacheVars, restVars, dest_exists, no_open,
                    entries, opened, opener, child >>

\* The loop of Open::run is at its end: Sort::run returns Ok.
OpenDone ==
    /\ sort_pc = "open"
    /\ entries = << >>
    /\ sort_result' = SortOk
    /\ sort_pc' = "returned"
    /\ UNCHANGED << repositoryVars, createPilesVars, cacheVars, restVars, dest_exists, no_open,
                    entries, opened, opener, child >>

\* The values of the variables of Sort::run where it is not called.
SortIdle ==
    /\ sort_pc = "idle"
    /\ dest_exists = TRUE
    /\ no_open = TRUE
    /\ sort_result = [state |-> "idle", message |-> ""]
    /\ entries = << >>
    /\ opened = << >>
    /\ opener = FALSE
    /\ child = {}

\* ------------------------------------------------------------------------
\* image.rs: the timestamp of a file

\* The lookups of parse_time_stamp in the order of the flat_map: the tags
\* outside, the ifds inside.
Tags == << "DateTimeOriginal", "DateTime", "DateTimeDigitized" >>

Ifds == << "PRIMARY", "THUMBNAIL" >>

Lookups ==
    [ k \in 1..(Len(Tags) * Len(Ifds)) |->
        << Tags[((k - 1) \div Len(Ifds)) + 1], Ifds[((k - 1) % Len(Ifds)) + 1] >> ]

\* A text is the sequence of its characters.
DecimalDigits == << "0", "1", "2", "3", "4", "5", "6", "7", "8", "9" >>

IsDigit(c) == \E n \in 1..Len(DecimalDigits) : DecimalDigits[n] = c

DigitValue(c) == (CHOOSE n \in 1..Len(DecimalDigits) : DecimalDigits[n] = c) - 1

\* The a.iter().flat_map(..).collect() of the components of an ASCII value.
RECURSIVE Flattened(_)
Flattened(components) ==
    IF components = << >> THEN << >>
    ELSE Head(components) \o Flattened(Tail(components))

\* The decimal number of a text of digits, None for any other text.
RECURSIVE Atou16(_)
Atou16(text) ==
    IF text = << >> THEN [ok |-> FALSE, value |-> 0]
    ELSE IF \E n \in 1..Len(text) : ~IsDigit(text[n]) THEN [ok |-> FALSE, value |-> 0]
    ELSE IF Len(text) = 1 THEN [ok |-> TRUE, value |-> DigitValue(text[1])]
    ELSE [ok |-> TRUE,
          value |-> 10 * Atou16(SubSeq(text, 1, Len(text) - 1)).value
                     + DigitValue(text[Len(text)])]

BlankDateTime ==
    << " ", " ", " ", " ", ":", " ", " ", ":", " ", " ", " ",
       " ", " ", ":", " ", " ", ":", " ", " " >>

SpacesDateTime == [ n \in 1..Len(BlankDateTime) |-> " " ]

\* exif::DateTime::from_ascii: the grammar YYYY:MM:DD HH:MM:SS, the fields
\* are numbers of any value.
FromAscii(data) ==
    LET year == Atou16(SubSeq(data, 1, 4))
        month == Atou16(SubSeq(data, 6, 7))
        day == Atou16(SubSeq(data, 9, 10))
        hour == Atou16(SubSeq(data, 12, 13))
        minute == Atou16(SubSeq(data, 15, 16))
        second == Atou16(SubSeq(data, 18, 19))
        failed_ == [ok |-> FALSE, year |-> 0, month |-> 0, day |-> 0,
                    hour |-> 0, minute |-> 0, second |-> 0]
    IN  IF data = BlankDateTime \/ data = SpacesDateTime THEN failed_
        ELSE IF Len(data) < Len(BlankDateTime) THEN failed_
        ELSE IF ~(data[5] = ":" /\ data[8] = ":" /\ data[11] = " "
                    /\ data[14] = ":" /\ data[17] = ":") THEN failed_
        ELSE IF ~(year.ok /\ month.ok /\ day.ok /\ hour.ok /\ minute.ok /\ second.ok)
             THEN failed_
        ELSE [ok |-> TRUE, year |-> year.value, month |-> month.value, day |-> day.value,
              hour |-> hour.value, minute |-> minute.value, second |-> second.value]

\* NaiveDate::from_ymd panics for a date that is not in the calendar.
FromYmdPanics(dt) ==
    ~(dt.month \in 1..12 /\ dt.day >= 1 /\ dt.day <= DaysInMonth(dt.year, dt.month))

\* NaiveDate::and_hms panics for a time that is not on the clock.
AndHmsPanics(dt) == ~(dt.hour < 24 /\ dt.minute < 60 /\ dt.second < 60)

\* NaiveDate::from_ymd(..).and_hms(..) in seconds from 1970-01-01 00:00:00.
FromYmdAndHms(dt) ==
    (DaysToYear(dt.year) + DaysToMonth(dt.year, dt.month) + dt.day - 1) * SecondsPerDay
        + (dt.hour * SecondsPerMinute + dt.minute) * SecondsPerMinute + dt.second

\* Option<NaiveDateTime>, or the panic that ends the call.
NoTimeStamp == [kind |-> "None", timestamp |-> 0]

SomeTimeStamp(ts) == [kind |-> "Some", timestamp |-> ts]

TimeStampPanic == [kind |-> "panic", timestamp |-> 0]

\* The closure of the find_map for one (tag, ifd).
FieldTimeStamp(f, lookup) ==
    LET field == f.fields[lookup]
        dt == FromAscii(Flattened(field.components))
    IN  IF field.kind = "absent" THEN NoTimeStamp
        ELSE IF field.kind # "Ascii" THEN NoTimeStamp
        ELSE IF ~dt.ok THEN NoTimeStamp
        ELSE IF FromYmdPanics(dt) \/ AndHmsPanics(dt) THEN TimeStampPanic
        ELSE SomeTimeStamp(FromYmdAndHms(dt))

\* find_map: the first lookup from the k-th on that does not give None.
RECURSIVE FindMap(_, _)
FindMap(f, k) ==
    IF k > Len(Lookups) THEN NoTimeStamp
    ELSE LET found == FieldTimeStamp(f, Lookups[k])
         IN  IF found.kind = "None" THEN FindMap(f, k + 1) ELSE found

\* fn parse_time_stamp
ParseTimeStamp(f) ==
    IF ~f.container THEN NoTimeStamp ELSE FindMap(f, 1)

\* Result<_, ImageLoadError>, or the panic that ends the call.
LoadIdleResult == [op |-> "", state |-> "idle", error |-> "", timestamp |-> 0, hash |-> {}]

LoadOk(op, ts, hash) ==
    [op |-> op, state |-> "Ok", error |-> "", timestamp |-> ts, hash |-> hash]

LoadErr(op, error) ==
    [op |-> op, state |-> "Err", error |-> error, timestamp |-> 0, hash |-> {}]

LoadPanic(op) ==
    [op |-> op, state |-> "panic", error |-> "", timestamp |-> 0, hash |-> {}]

\* A faulty fallback: the last-access time is taken before the creation time.
FallbackAccessedFirst(f) ==
    IF ~f.metadata THEN [ok |-> FALSE, time |-> 0]
    ELSE IF f.accessed THEN [ok |-> TRUE, time |-> f.accessed_at + f.utc_offset]
    ELSE IF f.created THEN [ok |-> TRUE, time |-> f.created_at + f.utc_offset]
    ELSE [ok |-> FALSE, time |-> 0]

\* std::fs::metadata(..)?, meta.created().or_else(|_| meta.accessed())? and
\* the naive local time of it.
Fallback(f) ==
    IF ~f.metadata THEN [ok |-> FALSE, time |-> 0]
    ELSE IF f.created THEN [ok |-> TRUE, time |-> f.created_at + f.utc_offset]
    ELSE IF f.accessed THEN [ok |-> TRUE, time |-> f.accessed_at + f.utc_offset]
    ELSE [ok |-> FALSE, time |-> 0]

\* ImageData::load
ImageDataLoad(op, f) ==
    LET parsed == ParseTimeStamp(f)
    IN  IF ~f.readable THEN LoadErr(op, "IoError")
        ELSE IF parsed.kind = "panic" THEN LoadPanic(op)
        ELSE IF parsed.kind = "Some" THEN LoadOk(op, parsed.timestamp, {})
        ELSE IF ~Fallback(f).ok THEN LoadErr(op, "IoError")
        ELSE LoadOk(op, Fallback(f).time, {})

\* Image::load
ImageLoad(op, f) ==
    LET image_data == ImageDataLoad(op, f)
    IN  IF image_data.state # "Ok" THEN image_data
        ELSE IF ~f.decodable THEN LoadErr(op, "InvalidImage")
        ELSE LoadOk(op, image_data.timestamp, f.hash)

\* A call of ImageData::load on the file.
CallImageDataLoad ==
    /\ load_result.state = "idle"
    /\ load_result' = ImageDataLoad("ImageData::load", file)
    /\ UNCHANGED << file >>

\* A call of Image::load on the file.
CallImageLoad ==
    /\ load_result.state = "idle"
    /\ load_result' = ImageLoad("Image::load", file)
    /\ UNCHANGED << file >>

\* A call of parse_time_stamp on the bytes of the file.
CallParseTimeStamp ==
    /\ load_result.state = "idle"
    /\ file.readable
    /\ LET parsed == ParseTimeStamp(file)
       IN  load_result' = [ LoadIdleResult EXCEPT !.op = "parse_time_stamp",
                                                   !.state = parsed.kind,
                                                   !.timestamp = parsed.timestamp ]
    /\ UNCHANGED << file >>

\* No file is being loaded.
LoadIdle ==
    /\ file = << >>
    /\ load_result = LoadIdleResult

\* ------------------------------------------------------------------------
\* open.rs: Open::run

\* A file name is the sequence of its bytes; the entries of one directory
\* have the same parent, and their paths compare as their names do.
RECURSIVE PathLess(_, _)
PathLess(a, b) ==
    IF b = << >> THEN FALSE
    ELSE IF a = << >> THEN TRUE
    ELSE IF Head(a) # Head(b) THEN Head(a) < Head(b)
    ELSE PathLess(Tail(a), Tail(b))

\* A faulty sort: the entries in descending order of their paths.
RECURSIVE SortDescending(_)
SortDescending(found) ==
    IF found = {} THEN << >>
    ELSE LET greatest == CHOOSE e \in found :
                            \A o \in found : o = e \/ PathLess(o.name, e.name)
         IN  << greatest >> \o SortDescending(found \ {greatest})

\* entries.sort_unstable_by_key(|e| e.path()) of the entries read_dir yields
\* in any order.
RECURSIVE SortUnstableByKey(_)
SortUnstableByKey(found) ==
    IF found = {} THEN << >>
    ELSE LET least == CHOOSE e \in found :
                         \A o \in found : o = e \/ PathLess(e.name, o.name)
         IN  << least >> \o SortUnstableByKey(found \ {least})

\* Option<PathBuf>
NoPath == [some |-> FALSE, path |-> << >>]

SomePath(path) == [some |-> TRUE, path |-> path]

\* A faulty start: the loop begins at the first entry whatever start_at is.
StartAtFirst(sorted, start) ==
    IF start.some /\ ~(\E k \in 1..Len(sorted) : sorted[k].name = start.path)
    THEN 0 - 1
    ELSE 0

\* entries.iter().position(|entry| entry.path() == start_at), -1 for None of
\* the position; 0 without start_at.
StartPosition(sorted, start) ==
    IF ~start.some THEN 0
    ELSE IF \E k \in 1..Len(sorted) : sorted[k].name = start.path
    THEN (CHOOSE k \in 1..Len(sorted) :
             /\ sorted[k].name = start.path
             /\ \A n \in 1..(k - 1) : sorted[n].name # start.path) - 1
    ELSE 0 - 1

\* entries.into_iter().skip(start)
Skip(sorted, start) == SubSeq(sorted, start + 1, Len(sorted))

\* A faulty only_single_file: a directory of two entries counts as single.
OnlySingleFileOfTwo(entry) ==
    IF entry.readable
    THEN ~(\E i \in 0..(entry.count - 1) : i >= 2)
    ELSE FALSE

\* fn only_single_file: no entry of the directory has an index of 1 or more;
\* false for a directory that cannot be read.
OnlySingleFile(entry) ==
    IF entry.readable
    THEN ~(\E i \in 0..(entry.count - 1) : i >= 1)
    ELSE FALSE

\* What Open::run has returned, or the panic that ended it.
OpenPending == [state |-> "running", message |-> ""]

OpenOk == [state |-> "ok", message |-> ""]

OpenErr(message) == [state |-> "err", message |-> message]

OpenPanic(message) == [state |-> "panic", message |-> message]

\* Open::run up to the loop: the entries are read and sorted and the start
\* position is looked up.
OpenStart ==
    /\ open_pc = "start"
    /\ \E read_refused \in BOOLEAN :
         LET sorted == SortUnstableByKey(open_path)
             start == StartPosition(sorted, start_at)
         IN  IF read_refused
             THEN /\ open_result' = OpenErr("read_dir")
                  /\ open_pc' = "returned"
                  /\ UNCHANGED open_iter
             ELSE IF start < 0
             THEN /\ open_result' = OpenErr("Failed to find pile")
                  /\ open_pc' = "returned"
                  /\ UNCHANGED open_iter
             ELSE /\ open_iter' = Skip(sorted, start)
                  /\ open_pc' = "loop"
                  /\ UNCHANGED open_result
    /\ UNCHANGED << open_path, start_at, options, shown, running >>

\* One iteration of the loop up to the opener: an entry that is not a
\* directory and, with skip_singles, a single pile are skipped; the opener
\* program is spawned, or the default program is asked to open the directory.
OpenNext ==
    /\ open_pc = "loop"
    /\ open_iter # << >>
    /\ open_iter' = Tail(open_iter)
    /\ LET entry == Head(open_iter)
       IN  IF ~entry.is_dir
           THEN UNCHANGED << open_pc, open_result, shown, running >>
           ELSE IF options.skip_singles /\ OnlySingleFile(entry)
           THEN UNCHANGED << open_pc, open_result, shown, running >>
           ELSE \E refused \in BOOLEAN :
                  IF refused
                  THEN /\ open_result' =
                            OpenErr(IF options.opener THEN "spawn" ELSE "opener::open")
                       /\ open_pc' = "returned"
                       /\ UNCHANGED << shown, running >>
                  ELSE /\ shown' = Append(shown, entry.name)
                       /\ running' = IF options.opener THEN running \cup {entry.name}
                                     ELSE running
                       /\ open_pc' = IF options.opener THEN "wait" ELSE "pause"
                       /\ UNCHANGED open_result
    /\ UNCHANGED << open_path, start_at, options >>

\* The opener process of a directory exits.
ChildExit(name) ==
    /\ name \in running
    /\ running' = running \ {name}
    /\ UNCHANGED << open_pc, open_path, start_at, options, open_iter, shown, open_result >>

\* child.wait()? of spawn_process returns when the child has exited.
ChildWait ==
    /\ open_pc = "wait"
    /\ \E refused \in BOOLEAN :
         IF refused
         THEN /\ open_result' = OpenErr("wait")
              /\ open_pc' = "returned"
         ELSE /\ shown[Len(shown)] \notin running
              /\ open_pc' = "loop"
              /\ UNCHANGED open_result
    /\ UNCHANGED << open_path, start_at, options, open_iter, shown, running >>

\* fn pause: the prompt is written to stdout and flushed, and a byte is read
\* from stdin; the first of the three that fails panics.
Pause ==
    /\ open_pc = "pause"
    /\ \E failure \in PausePanics \cup {""} :
         IF failure # ""
         THEN /\ open_result' = OpenPanic(failure)
              /\ open_pc' = "returned"
         ELSE /\ open_pc' = "loop"
              /\ UNCHANGED open_result
    /\ UNCHANGED << open_path, start_at, options, open_iter, shown, running >>

\* The loop is at its end: Ok(()).
OpenReturn ==
    /\ open_pc = "loop"
    /\ open_iter = << >>
    /\ open_result' = OpenOk
    /\ open_pc' = "returned"
    /\ UNCHANGED << open_path, start_at, options, open_iter, shown, running >>

\* Open::run is not called.
OpenIdle ==
    /\ open_pc = "idle"
    /\ open_path = {}
    /\ start_at = NoPath
    /\ options = [opener |-> FALSE, skip_singles |-> FALSE]
    /\ open_iter = << >>
    /\ shown = << >>
    /\ running = {}
    /\ open_result = [state |-> "idle", message |-> ""]


\* ------------------------------------------------------------------------
\* collect.rs: Collect::run

\* img.timestamp.format(DATETIME_FORMATTER): the date and the second of the
\* day; two timestamps of the same second give the same text.
FormatTimestamp(timestamp) ==
    DateDisplay(DateOf(timestamp)) \o "_" \o ToString(timestamp % SecondsPerDay)

\* format!("{new_stem}.{extension}") and
\* format!("{new_stem}-{same_name_count}.{extension}")
NewName(new_stem, same_name_count, extension) ==
    IF same_name_count = 0
    THEN new_stem \o "." \o extension
    ELSE new_stem \o "-" \o ToString(same_name_count) \o "." \o extension

\* A faulty search: the first suffix tried is -2.
RECURSIVE FirstFreeFromTwo(_, _, _, _)
FirstFreeFromTwo(new_stem, extension, names, same_name_count) ==
    IF NewName(new_stem, same_name_count, extension) \in names
    THEN FirstFreeFromTwo(new_stem, extension, names, same_name_count + 2)
    ELSE NewName(new_stem, same_name_count, extension)

\* while link.exists(): the count goes up until the name is not in the
\* target directory.
RECURSIVE FirstFree(_, _, _, _)
FirstFree(new_stem, extension, names, same_name_count) ==
    IF NewName(new_stem, same_name_count, extension) \in names
    THEN FirstFree(new_stem, extension, names, same_name_count + 1)
    ELSE NewName(new_stem, same_name_count, extension)

\* fn generate_file_name: without keep_names the stem is the timestamp of
\* ImageData::load and the error or panic of the load ends the call; a file
\* name without an extension (extension() is None) is an error, a name that
\* ends in a dot has the empty extension.
GenerateFileName(original, names, keep) ==
    IF ~keep /\ original.load.state = "panic"
    THEN [state |-> "panic", message |-> "ImageData::load", link |-> ""]
    ELSE IF ~keep /\ original.load.state # "Ok"
    THEN [state |-> "err", message |-> original.load.error, link |-> ""]
    ELSE IF ~original.has_extension
    THEN [state |-> "err", message |-> "Missing file extension", link |-> ""]
    ELSE [state |-> "ok", message |-> "",
          link |-> FirstFree(IF keep THEN original.stem
                             ELSE FormatTimestamp(original.load.timestamp),
                             original.extension, names, 0)]

\* The names in the destination.
FinalNames == { final_links[k] : k \in 1..Len(final_links) }

\* A faulty Collect::run: the source is removed whatever collect returned.
AfterCollectAlways(res, keep_source) == "delete"

\* collect(..)? and if !self.no_delete: where Collect::run goes on when
\* collect has returned.
AfterCollect(res, keep_source) ==
    IF res.state # "ok" THEN "returned"
    ELSE IF keep_source THEN "returned"
    ELSE "delete"

\* create_dir_from_ref_name(self.destination, &self.source, "final")?
CollectCreateDir ==
    /\ collect_pc = "validate"
    /\ \E exists \in BOOLEAN : \E create_refused \in BOOLEAN : \E read_refused \in BOOLEAN :
         LET res == Validation(exists, FinalNames, create_refused, read_refused)
         IN  /\ ~exists => FinalNames = {}
             /\ collect_result' = res
             /\ collect_pc' = IF res.state = "err" THEN "returned" ELSE "collect"
    /\ UNCHANGED << source_files, keep_names, no_delete, final_links, collected, source_state >>

\* One entry of the loops of collect: the error of an entry that cannot be
\* read (dir?, dir.metadata()?, image?) or of a pile directory that cannot be
\* read (read_dir_utf8()?) is returned from inside the loops; an entry of the
\* source that is not a directory is skipped, a file of a pile directory is
\* linked under the name generate_file_name returns; hard_link fails for a
\* name that exists.
CollectNext ==
    /\ collect_pc = "collect"
    /\ collected < Len(source_files)
    /\ LET image == source_files[collected + 1]
           link == GenerateFileName(image, FinalNames, keep_names)
       IN  IF image.fails # ""
           THEN /\ collect_result' = SortErr(image.fails)
                /\ collect_pc' = AfterCollect(SortErr(image.fails), no_delete)
                /\ UNCHANGED << final_links, collected >>
           ELSE IF image.dir = 0
           THEN /\ collected' = collected + 1
                /\ UNCHANGED << collect_pc, collect_result, final_links >>
           ELSE IF link.state # "ok"
           THEN /\ collect_result' = [state |-> link.state, message |-> link.message]
                /\ collect_pc' = AfterCollect(link, no_delete)
                /\ UNCHANGED << final_links, collected >>
           ELSE \E refused \in BOOLEAN :
                  IF refused \/ link.link \in FinalNames
                  THEN /\ collect_result' = SortErr("Failed to create file")
                       /\ collect_pc' = AfterCollect(SortErr("Failed to create file"), no_delete)
                       /\ UNCHANGED << final_links, collected >>
                  ELSE /\ final_links' = Append(final_links, link.link)
                       /\ collected' = collected + 1
                       /\ UNCHANGED << collect_pc, collect_result >>
    /\ UNCHANGED << source_files, keep_names, no_delete, source_state >>

\* collect returns Ok(()) at the end of the loops, or the error of the
\* read_dir_utf8 of the source directory before the first entry.
CollectReturn ==
    /\ collect_pc = "collect"
    /\ \/ /\ collected = Len(source_files)
          /\ collect_result' = IF no_delete THEN SortOk ELSE collect_result
          /\ collect_pc' = AfterCollect(SortOk, no_delete)
       \/ /\ collected = 0
          /\ collect_result' = SortErr("read_dir")
          /\ collect_pc' = AfterCollect(SortErr("read_dir"), no_delete)
    /\ UNCHANGED << source_files, keep_names, no_delete, final_links, collected, source_state >>

\* std::fs::remove_dir_all(&self.source)?: a removal that fails may have
\* removed a part of the tree.
RemoveDirAll ==
    /\ collect_pc = "delete"
    /\ \E removed \in {"removed", "partial", "present"} :
         /\ source_state' = removed
         /\ collect_result' = IF removed = "removed" THEN SortOk ELSE SortErr("remove_dir_all")
    /\ collect_pc' = "returned"
    /\ UNCHANGED << source_files, keep_names, no_delete, final_links, collected >>

\* Collect::run is not called.
CollectIdle ==
    /\ collect_pc = "idle"
    /\ source_files = << >>
    /\ keep_names = FALSE
    /\ no_delete = FALSE
    /\ final_links = << >>
    /\ collected = 0
    /\ source_state = "present"
    /\ collect_result = [state |-> "idle", message |-> ""]


\* No command other than sort is running.
RestIdle == LoadIdle /\ OpenIdle /\ CollectIdle /\ ContractIdle /\ OlderIdle


\* ------------------------------------------------------------------------
\* The state machine.

Init ==
    /\ dir \in Directories
    /\ pc = "load"
    /\ loaded = 0
    /\ images = << >>
    /\ failed = {}
    /\ next = 0
    /\ inflight = {}
    /\ matched = {}
    /\ consumed = {}
    /\ selfTaken = {}
    /\ piles = << >>
    /\ stats = << >>
    /\ panic = ""
    /\ CreatePilesIdle
    /\ CacheIdle
    /\ SortIdle
    /\ RestIdle

\* The load of one more file completes: its image reaches the collected
\* vector; a failed load is logged and the file is left out.  A load that
\* panics ends Repository::new: the panic of the worker is carried to
\* collect(), which never returns the vector.
LoadFile(f) ==
    /\ pc = "load" /\ panic = ""
    /\ f = loaded + 1
    /\ LET res == LoadResult(f, FileKinds[dir[f]])
       IN  IF ~res.ok /\ res.err = "panic"
           THEN /\ panic' = "NaiveDate::from_ymd"
                /\ UNCHANGED << images, failed, loaded >>
           ELSE /\ images' = IF res.ok THEN Append(images, res.image) ELSE images
                /\ failed' = IF res.ok THEN failed ELSE failed \cup {f}
                /\ loaded' = loaded + 1
                /\ UNCHANGED panic
    /\ UNCHANGED << dir, pc, next, inflight, matched, consumed, selfTaken, piles, stats >>

\* .collect() of the images: every file has been loaded or skipped.
CollectImages ==
    /\ pc = "load" /\ panic = ""
    /\ loaded = NumFiles
    /\ pc' = "filter"
    /\ UNCHANGED << dir, loaded, images, failed, next, inflight, matched, consumed,
                    selfTaken, piles, stats, panic >>

\* A worker of the second par_bridge pulls the next combination from the
\* shared iterator.
FilterTake ==
    /\ pc = "filter" /\ panic = ""
    /\ Cardinality(inflight) < Workers
    /\ next < Len(TupleCombinations(Len(images)))
    /\ next' = next + 1
    /\ inflight' = inflight \cup { TupleCombinations(Len(images))[next + 1] }
    /\ UNCHANGED << dir, pc, loaded, images, failed, matched, consumed, selfTaken,
                    piles, stats, panic >>

\* A worker evaluates the filter on its combination and keeps a match.
FilterEval(c) ==
    /\ pc = "filter" /\ panic = ""
    /\ c \in inflight
    /\ inflight' = inflight \ {c}
    /\ matched' = IF Matches(images[c[1]], images[c[2]]) THEN matched \cup {c} ELSE matched
    /\ UNCHANGED << dir, pc, loaded, images, failed, next, consumed, selfTaken,
                    piles, stats, panic >>

\* A faulty collect: it returns as soon as the iterator is exhausted.
CollectReadyEarly ==
    next = Len(TupleCombinations(Len(images)))

\* .collect() of the pairs returns when the iterator is exhausted and every
\* worker has delivered its result.
CollectReady ==
    /\ next = Len(TupleCombinations(Len(images)))
    /\ inflight = {}

CollectPairs ==
    /\ pc = "filter" /\ panic = ""
    /\ CollectReady
    /\ pc' = "fold"
    /\ UNCHANGED << dir, loaded, images, failed, next, inflight, matched, consumed,
                    selfTaken, piles, stats, panic >>

\* The fold runs on the thread of Repository::new, once the pairs are collected.
FoldReady == pc = "fold" /\ panic = ""

\* One step of the fold on the pair of the images at positions p[1], p[2].
FoldStep(p) ==
    /\ piles' = FoldPiles(piles, images[p[1]], images[p[2]])
    /\ panic' = FoldPanic(piles, images[p[1]], images[p[2]])

\* The fold takes a matched pair.  The parallel filter delivers the matched
\* pairs in an order that differs from run to run; the model keeps the pairs
\* still ahead of the fold as a set and lets the fold take any of them next,
\* which gives the runs of every order of the vector.
FoldMatched(p) ==
    /\ FoldReady
    /\ p \in matched \ consumed
    /\ FoldStep(p)
    /\ consumed' = consumed \cup {p}
    /\ UNCHANGED << dir, pc, loaded, images, failed, next, inflight, matched,
                    selfTaken, stats >>

\* The fold takes the next self-pair: they follow the matched pairs, in the
\* order of the images.
FoldSelf ==
    /\ FoldReady
    /\ consumed = matched
    /\ Cardinality(selfTaken) < Len(SelfPairs(images))
    /\ selfTaken = 1..Cardinality(selfTaken)
    /\ FoldStep(SelfPairs(images)[Cardinality(selfTaken) + 1])
    /\ selfTaken' = selfTaken \cup {Cardinality(selfTaken) + 1}
    /\ UNCHANGED << dir, pc, loaded, images, failed, next, inflight, matched,
                    consumed, stats >>

\* The pair list is exhausted: the fold returns the pile vector.
FinishFold ==
    /\ FoldReady
    /\ consumed = matched
    /\ Cardinality(selfTaken) = Len(SelfPairs(images))
    /\ pc' = "stats"
    /\ UNCHANGED << dir, loaded, images, failed, next, inflight, matched, consumed,
                    selfTaken, piles, stats, panic >>

\* Stats::from_piles and print_stats; Repository::new returns.
ComputeStats ==
    /\ pc = "stats" /\ panic = ""
    /\ IF StatsPanics(piles)
       THEN /\ panic' = "sorted_piles[len / 2]"
            /\ UNCHANGED << pc, stats >>
       ELSE /\ stats' = StatsFromPiles(piles)
            /\ pc' = "done"
            /\ UNCHANGED panic
    /\ UNCHANGED << dir, loaded, images, failed, next, inflight, matched, consumed,
                    selfTaken, piles >>

\* The variables that Repository::new leaves alone.
outside == << createPilesVars, cacheVars, sortVars, restVars >>

Next ==
    \/ (\E f \in Files : LoadFile(f)) /\ UNCHANGED outside
    \/ CollectImages /\ UNCHANGED outside
    \/ FilterTake /\ UNCHANGED outside
    \/ (\E c \in inflight : FilterEval(c)) /\ UNCHANGED outside
    \/ CollectPairs /\ UNCHANGED outside
    \/ (\E p \in matched : FoldMatched(p)) /\ UNCHANGED outside
    \/ FoldSelf /\ UNCHANGED outside
    \/ FinishFold /\ UNCHANGED outside
    \/ ComputeStats /\ UNCHANGED outside

Spec == Init /\ [][Next]_vars

\* ------------------------------------------------------------------------
\* The fold as a function of its pair list: FoldSpec starts where the pairs of
\* FoldFiles loaded images have been collected and feeds the matched pairs and
\* the self-pairs to the closure of the fold in every order.

\* The images of a directory whose files all load, in the order of the files.
ImagesOf(d) ==
    [k \in DOMAIN d |-> LoadResult(k, FileKinds[d[k]]).image]

\* What the filter collects from the images: the combinations that match.
MatchedOf(imgs) ==
    LET combinations == TupleCombinations(Len(imgs))
    IN  { c \in { combinations[n] : n \in 1..Len(combinations) } :
            Matches(imgs[c[1]], imgs[c[2]]) }

InitFold ==
    /\ dir \in [1..FoldFiles -> { k \in 1..Len(FileKinds) : LoadResult(0, FileKinds[k]).ok }]
    /\ pc = "fold"
    /\ loaded = FoldFiles
    /\ images = ImagesOf(dir)
    /\ failed = {}
    /\ next = Len(TupleCombinations(FoldFiles))
    /\ inflight = {}
    /\ matched = MatchedOf(images)
    /\ consumed = {}
    /\ selfTaken = {}
    /\ piles = << >>
    /\ stats = << >>
    /\ panic = ""
    /\ CreatePilesIdle
    /\ CacheIdle
    /\ SortIdle
    /\ RestIdle

\* The fold takes the self-pair of the image at position k, at any place of
\* the pair list.
FoldSelfAny(k) ==
    /\ FoldReady
    /\ k \in (1..Len(SelfPairs(images))) \ selfTaken
    /\ FoldStep(SelfPairs(images)[k])
    /\ selfTaken' = selfTaken \cup {k}
    /\ UNCHANGED << dir, pc, loaded, images, failed, next, inflight, matched,
                    consumed, stats >>

\* The pair list is exhausted.
FinishFoldAny ==
    /\ FoldReady
    /\ consumed = matched
    /\ selfTaken = 1..Len(SelfPairs(images))
    /\ pc' = "stats"
    /\ UNCHANGED << dir, loaded, images, failed, next, inflight, matched, consumed,
                    selfTaken, piles, stats, panic >>

NextFold ==
    \/ (\E p \in matched : FoldMatched(p)) /\ UNCHANGED outside
    \/ (\E k \in 1..Len(images) : FoldSelfAny(k)) /\ UNCHANGED outside
    \/ FinishFoldAny /\ UNCHANGED outside
    \/ ComputeStats /\ UNCHANGED outside

FoldSpec == InitFold /\ [][NextFold]_vars

\* ------------------------------------------------------------------------
\* create_piles as a function of the repository: CreatePilesSpec starts where
\* Repository::new has returned the piles of PileFiles images of a nested
\* source tree, and create_piles is called on an empty destination.

\* The times the images are taken at: 23:53:20 of day 0 and 00:16:40 of day 1,
\* less than the time window apart.
TakenAt == << 86000, 87400 >>

\* The file names of the source tree; two files of different subdirectories
\* can have the same name.
BaseNames == { "x.jpg", "y.jpg" }

\* The hash of the images of the pile at position m: the hashes of two piles
\* differ in 2 * HashThreshold bits, so that images of two piles never match.
PileHash(m) == { HashThreshold * (m - 1) + b : b \in 1..HashThreshold }

\* The ways to spread the images over the piles 1..m of a pile vector.
PileAssignments ==
    { a \in [1..PileFiles -> 1..PileFiles] :
        \A m \in 1..PileFiles :
            (\E k \in 1..PileFiles : a[k] = m) =>
                \A n \in 1..m : \E k \in 1..PileFiles : a[k] = n }

\* The image of file k.
ImagesAssigned(a, times) ==
    [k \in 1..PileFiles |->
        [path |-> k, timestamp |-> TakenAt[times[k]], hash |-> PileHash(a[k])]]

\* The pile vector of an assignment.
PilesAssigned(a, imgs) ==
    [m \in 1..MaxOf({ a[k] : k \in 1..PileFiles }) |->
        UpdateDate([pictures |-> { imgs[k] : k \in { j \in 1..PileFiles : a[j] = m } },
                    date |-> 0])]

InitCreatePiles ==
    /\ dir = << >>
    /\ pc = "done"
    /\ loaded = PileFiles
    /\ \E a \in PileAssignments : \E times \in [1..PileFiles -> 1..Len(TakenAt)] :
         /\ images = ImagesAssigned(a, times)
         /\ piles = PilesAssigned(a, images)
    /\ failed = {}
    /\ next = Len(TupleCombinations(PileFiles))
    /\ inflight = {}
    /\ matched = MatchedOf(images)
    /\ consumed = matched
    /\ selfTaken = 1..PileFiles
    /\ stats = StatsFromPiles(piles)
    /\ panic = ""
    /\ base_names \in [1..PileFiles -> BaseNames]
    /\ destDirs = {}
    /\ destLinks = {}
    /\ destInfo = "absent"
    /\ dates_counts = << >>
    /\ timestamps = << >>
    /\ linked = {}
    /\ result = Running
    /\ CacheIdle
    /\ SortIdle
    /\ RestIdle

NextCreatePiles ==
    \/ CreateDir
    \/ \E n \in 1..Len(images) : HardLink(images[n])
    \/ SaveToFile

CreatePilesSpec == InitCreatePiles /\ [][NextCreatePiles]_vars

\* ------------------------------------------------------------------------
\* The cache under every sequence of calls: CacheSpec creates a cache of a
\* capacity up to MaxCapacity, in a build with or without overflow checks, and
\* calls push and get_or_insert with any value and any key.

\* The values that are pushed and that the factories make.
Values == { "v", "w" }

\* The values of a key.
Keys == 0..(KeySpace - 1)

\* The values of the variables of Repository::new where no repository is built.
RepositoryIdle ==
    /\ dir = << >>
    /\ pc = "idle"
    /\ loaded = 0
    /\ images = << >>
    /\ failed = {}
    /\ next = 0
    /\ inflight = {}
    /\ matched = {}
    /\ consumed = {}
    /\ selfTaken = {}
    /\ piles = << >>
    /\ stats = << >>
    /\ panic = ""

InitCache ==
    /\ RepositoryIdle
    /\ CreatePilesIdle
    /\ SortIdle
    /\ overflow_checks \in BOOLEAN
    /\ \E cap \in 0..MaxCapacity : CacheNew(cap)
    /\ RestIdle

NextCache ==
    \/ \E value \in Values : CachePush(value) /\ UNCHANGED contractVars
    \/ \E k \in Keys : \E made \in Values : CacheGetOrInsert(k, made) /\ UNCHANGED contractVars

CacheSpec == InitCache /\ [][NextCache]_vars

\* ------------------------------------------------------------------------
\* The cache under its contract: ContractSpec calls get_or_insert only with
\* keys that push of the cache has returned, as load_single_image does, and
\* records for one key what the calls since its push were.

\* The keys that push has returned.
ReturnedKeys == { returned[n] : n \in 1..Len(returned) }

\* The record of the watched key w after an access to the key k on a cache of
\* capacity cap: pushed holds the value of a push, miss says that k was not
\* resident, so that the access inserted it and the values pushed under k
\* before are gone.  An access to another key counts, and the values are
\* forgotten once cap insertions of other keys have followed the latest
\* access of the watched key.
Promise(promised, cap, k, w, pushed, miss) ==
    IF k = w
    THEN [values |-> (IF miss THEN {} ELSE promised.values) \cup pushed,
          inserted |-> 0, touched |-> {}]
    ELSE IF promised.values = {} THEN promised
    ELSE IF miss /\ promised.inserted + 1 >= cap THEN Forgotten
    ELSE [values |-> promised.values,
          inserted |-> promised.inserted + (IF miss THEN 1 ELSE 0),
          touched |-> IF Cardinality(promised.touched) >= cap
                      THEN promised.touched
                      ELSE promised.touched \cup {k}]

\* A call of push by the client.
ContractPush(value) ==
    /\ CachePush(value)
    /\ factory' = ""
    /\ kept' = IF capacity = 0 THEN kept
               ELSE Promise(kept, capacity, current_key, watch, {value},
                            current_key \notin KeysOf(cache))
    /\ UNCHANGED watch

\* A call of get_or_insert by the client, with a key that push has returned.
ContractGetOrInsert(k, made) ==
    /\ k \in ReturnedKeys
    /\ CacheGetOrInsert(k, made)
    /\ factory' = made
    /\ kept' = IF capacity = 0 THEN kept
               ELSE Promise(kept, capacity, k, watch, {}, k \notin KeysOf(cache))
    /\ UNCHANGED watch

InitContract ==
    /\ RepositoryIdle
    /\ CreatePilesIdle
    /\ SortIdle
    /\ LoadIdle
    /\ OpenIdle
    /\ CollectIdle
    /\ OlderIdle
    /\ overflow_checks \in BOOLEAN
    /\ \E cap \in 0..MaxCapacity : CacheNew(cap)
    /\ watch \in Keys
    /\ factory = ""
    /\ kept = Forgotten

NextContract ==
    \/ \E value \in Values : ContractPush(value)
    \/ \E k \in Keys : \E made \in Values : ContractGetOrInsert(k, made)

ContractSpec == InitContract /\ [][NextContract]_vars

\* ------------------------------------------------------------------------
\* Sort::run as a whole: SortSpec starts at the call of Sort::run on a flat
\* source directory and a destination that is missing, empty, or left with
\* the info.txt or with a pile directory of an earlier run.

\* The source directories of SortSpec: the first file is of any kind, the
\* other files are of one kind.
SortDirectories ==
    { d \in Directories : \A f \in Files : f > 1 => d[f] = d[NumFiles] }

\* The file names of a flat source directory.
FlatNames == [f \in Files |-> ToString(f) \o ".jpg"]

InitSort ==
    /\ dir \in SortDirectories
    /\ pc = "idle"
    /\ loaded = 0
    /\ images = << >>
    /\ failed = {}
    /\ next = 0
    /\ inflight = {}
    /\ matched = {}
    /\ consumed = {}
    /\ selfTaken = {}
    /\ piles = << >>
    /\ stats = << >>
    /\ panic = ""
    /\ base_names = FlatNames
    /\ \E before \in {"missing", "empty", "info", "pile"} :
         /\ dest_exists = (before # "missing")
         /\ destDirs = IF before = "pile" THEN {PathOrder[1]} ELSE {}
         /\ destInfo = IF before = "info" THEN "written" ELSE "absent"
    /\ destLinks = {}
    /\ dates_counts = << >>
    /\ timestamps = << >>
    /\ linked = {}
    /\ result = NotCalled
    /\ CacheIdle
    /\ sort_pc = "validate"
    /\ no_open \in BOOLEAN
    /\ sort_result = SortPending
    /\ entries = << >>
    /\ opened = << >>
    /\ opener \in BOOLEAN
    /\ child = {}
    /\ RestIdle

NextSort ==
    \/ CreateDirFromRefName
    \/ Next
    \/ CallCreatePiles
    \/ NextCreatePiles
    \/ AfterCreatePiles
    \/ OpenEntry
    \/ (\E name \in child : OpenerExit(name))
    \/ SpawnProcessWait
    \/ PauseAfterOpen
    \/ OpenDone

SortSpec == InitSort /\ [][NextSort]_vars

\* ------------------------------------------------------------------------
\* The loaders of image.rs as functions of the file: LoadSpec starts from a
\* file and applies ImageData::load, Image::load or parse_time_stamp to it.

\* The most (tag, ifd) lookups that find a field in one file.
MaxPresent == 2

\* The values of a field: no field, a value that is not ASCII, and ASCII
\* values of one or two components.
AbsentField == [kind |-> "absent", components |-> << >>]

FieldValues ==
    { AbsentField,
      [kind |-> "Short", components |-> << >>],
      \* 1970:01:01 23:30:00
      [kind |-> "Ascii", components |-> << << "1", "9", "7", "0", ":", "0", "1", ":", "0", "1", " ", "2", "3", ":", "3", "0", ":", "0", "0" >> >>],
      \* 1970:01:02 00:00:00, in two components
      [kind |-> "Ascii", components |-> << << "1", "9", "7", "0", ":", "0", "1", ":", "0", "2" >>,
                                         << " ", "0", "0", ":", "0", "0", ":", "0", "0" >> >>],
      \* 1970-01-01 23:30:00
      [kind |-> "Ascii", components |-> << << "1", "9", "7", "0", "-", "0", "1", "-", "0", "1", " ", "2", "3", ":", "3", "0", ":", "0", "0" >> >>],
      \* the blank value
      [kind |-> "Ascii", components |-> << BlankDateTime >>],
      \* 1970:01:01
      [kind |-> "Ascii", components |-> << << "1", "9", "7", "0", ":", "0", "1", ":", "0", "1" >> >>],
      \* 0000:00:00 00:00:00
      [kind |-> "Ascii", components |-> << << "0", "0", "0", "0", ":", "0", "0", ":", "0", "0", " ", "0", "0", ":", "0", "0", ":", "0", "0" >> >>] }

LookupSet == { Lookups[k] : k \in 1..Len(Lookups) }

\* The fields of an EXIF container with at most `present` fields.
FieldTables(present) ==
    UNION { { [ l \in LookupSet |-> IF l \in found THEN value[l] ELSE AbsentField ] :
                value \in [found -> FieldValues \ {AbsentField}] } :
            found \in { q \in SUBSET LookupSet : Cardinality(q) <= present } }

\* The files: unreadable, readable with bytes that do not decode, or an
\* image; with an EXIF container that parses or not; with filesystem times
\* that are available or not.
LoadFiles(present) ==
    { [readable |-> c[1], decodable |-> c[2], hash |-> {},
       container |-> e, fields |-> t,
       metadata |-> m[1], created |-> m[2], accessed |-> m[3],
       created_at |-> 90000, accessed_at |-> 95000, utc_offset |-> 3600] :
      c \in { << FALSE, FALSE >>, << TRUE, FALSE >>, << TRUE, TRUE >> },
      e \in BOOLEAN,
      t \in FieldTables(present),
      m \in { << FALSE, FALSE, FALSE >>, << TRUE, FALSE, FALSE >>, << TRUE, TRUE, FALSE >>,
              << TRUE, FALSE, TRUE >>, << TRUE, TRUE, TRUE >> } }

InitLoad ==
    /\ file \in { f \in LoadFiles(MaxPresent) :
                    /\ ~f.container => \A l \in LookupSet : f.fields[l] = AbsentField
                    /\ ~f.readable => ~f.container /\ ~f.metadata
                    /\ ~f.decodable => ~f.container }
    /\ load_result = LoadIdleResult
    /\ RepositoryIdle
    /\ CreatePilesIdle
    /\ CacheIdle
    /\ SortIdle
    /\ OpenIdle
    /\ CollectIdle
    /\ ContractIdle
    /\ OlderIdle

outsideLoad ==
    << repositoryVars, createPilesVars, cacheVars, sortVars, openVars, collectVars, contractVars, olderVars >>

NextLoad ==
    \/ CallImageDataLoad /\ UNCHANGED outsideLoad
    \/ CallImageLoad /\ UNCHANGED outsideLoad
    \/ CallParseTimeStamp /\ UNCHANGED outsideLoad

LoadSpec == InitLoad /\ [][NextLoad]_vars

\* ------------------------------------------------------------------------
\* Open::run as a command: OpenSpec starts from a directory, a start_at and
\* the options.

\* The most entries of the directory.
MaxEntries == 3

\* The file names of the entries.
EntryNames == { << 1 >>, << 1, 1 >>, << 1, 2 >>, << 2 >> }

\* An entry: a file; a directory of no, one or two entries; a directory of
\* one entry that cannot be read.
EntryKinds ==
    { [is_dir |-> FALSE, count |-> 0, readable |-> TRUE],
      [is_dir |-> TRUE, count |-> 0, readable |-> TRUE],
      [is_dir |-> TRUE, count |-> 1, readable |-> TRUE],
      [is_dir |-> TRUE, count |-> 2, readable |-> TRUE],
      [is_dir |-> TRUE, count |-> 1, readable |-> FALSE] }

DirEntry(name, kind) ==
    [name |-> name, is_dir |-> kind.is_dir, count |-> kind.count, readable |-> kind.readable]

\* The directories Open::run is called on: at most `most` entries of
\* different names.
OpenPaths(most) ==
    { found \in SUBSET { DirEntry(n, k) : n \in EntryNames, k \in EntryKinds } :
        /\ Cardinality(found) <= most
        /\ \A a \in found : \A b \in found : a.name = b.name => a = b }

InitOpen ==
    /\ open_pc = "start"
    /\ open_path \in OpenPaths(MaxEntries)
    /\ start_at \in {NoPath} \cup { SomePath(n) : n \in EntryNames }
    /\ options \in [opener : BOOLEAN, skip_singles : BOOLEAN]
    /\ open_iter = << >>
    /\ shown = << >>
    /\ running = {}
    /\ open_result = OpenPending
    /\ RepositoryIdle
    /\ CreatePilesIdle
    /\ CacheIdle
    /\ SortIdle
    /\ LoadIdle
    /\ CollectIdle
    /\ ContractIdle
    /\ OlderIdle

outsideOpen ==
    << repositoryVars, createPilesVars, cacheVars, sortVars, loadVars, collectVars, contractVars, olderVars >>

NextOpen ==
    \/ OpenStart /\ UNCHANGED outsideOpen
    \/ OpenNext /\ UNCHANGED outsideOpen
    \/ (\E name \in running : ChildExit(name)) /\ UNCHANGED outsideOpen
    \/ ChildWait /\ UNCHANGED outsideOpen
    \/ Pause /\ UNCHANGED outsideOpen
    \/ OpenReturn /\ UNCHANGED outsideOpen

OpenSpec == InitOpen /\ [][NextOpen]_vars


\* ------------------------------------------------------------------------
\* Collect::run as a command: CollectSpec starts from a source tree, the
\* options and a destination that is empty or not.

\* The most entries of the source tree that the loops of collect visit.
CollectFiles == 3

\* The files of the pile directories: a.jpg, a-1.jpg that does not load,
\* another a.jpg taken a day later, b without an extension whose load panics,
\* `a.` with the empty extension;
\* info.txt, which is in the source directory itself; and the entries at
\* which a ? of the loops returns: an entry of the source directory that
\* cannot be read (a name that is not UTF-8) or whose metadata cannot be
\* read, a pile directory that cannot be read, and an entry of a pile
\* directory that cannot be read.
SourcePool ==
    << [stem |-> "a", extension |-> "jpg", has_extension |-> TRUE, top |-> FALSE, fails |-> "",
        load |-> LoadOk("ImageData::load", 84600, {})],
       [stem |-> "a-1", extension |-> "jpg", has_extension |-> TRUE, top |-> FALSE, fails |-> "",
        load |-> LoadErr("ImageData::load", "IoError")],
       [stem |-> "a", extension |-> "jpg", has_extension |-> TRUE, top |-> FALSE, fails |-> "",
        load |-> LoadOk("ImageData::load", 171000, {})],
       [stem |-> "b", extension |-> "", has_extension |-> FALSE, top |-> FALSE, fails |-> "",
        load |-> LoadPanic("ImageData::load")],
       [stem |-> "a", extension |-> "", has_extension |-> TRUE, top |-> FALSE, fails |-> "",
        load |-> LoadOk("ImageData::load", 84600, {})],
       [stem |-> "info", extension |-> "txt", has_extension |-> TRUE, top |-> TRUE, fails |-> "",
        load |-> LoadOk("ImageData::load", 84600, {})],
       [stem |-> "", extension |-> "", has_extension |-> FALSE, top |-> TRUE, fails |-> "dir?",
        load |-> LoadErr("ImageData::load", "IoError")],
       [stem |-> "", extension |-> "", has_extension |-> FALSE, top |-> TRUE, fails |-> "dir.metadata()?",
        load |-> LoadErr("ImageData::load", "IoError")],
       [stem |-> "", extension |-> "", has_extension |-> FALSE, top |-> FALSE, fails |-> "read_dir_utf8()?",
        load |-> LoadErr("ImageData::load", "IoError")],
       [stem |-> "", extension |-> "", has_extension |-> FALSE, top |-> FALSE, fails |-> "image?",
        load |-> LoadErr("ImageData::load", "IoError")] >>

\* The entry at position k of a tree whose files are chosen by pick and
\* whose pile directories begin at the positions of breaks: dir is the number
\* of the pile directory, 0 for an entry of the source directory itself.
SourceEntry(pick, breaks, k) ==
    [dir |-> IF SourcePool[pick[k]].top THEN 0
             ELSE Cardinality({ b \in breaks : b <= k }),
     stem |-> SourcePool[pick[k]].stem,
     extension |-> SourcePool[pick[k]].extension,
     has_extension |-> SourcePool[pick[k]].has_extension,
     fails |-> SourcePool[pick[k]].fails,
     load |-> SourcePool[pick[k]].load]

\* The source trees of at most `most` entries, in the order in which the
\* loops visit them: info.txt comes first if it is there, the files of one
\* directory differ in name, a pile directory that cannot be read shows no
\* file, and the loops visit no entry after the one at which they return.
SourceTrees(most) ==
    { t \in UNION { { [k \in 1..n |-> SourceEntry(pick, breaks, k)] :
                        pick \in [1..n -> 1..Len(SourcePool)], breaks \in SUBSET (1..n) } :
                    n \in 0..most } :
        /\ \A k \in 1..Len(t) : (t[k].dir = 0) = (t[k].stem = "info" \/ t[k].fails \in {"dir?", "dir.metadata()?"})
        /\ \A k \in 2..Len(t) : t[k].stem # "info"
        /\ \A k \in 1..(Len(t) - 1) : t[k].fails = ""
        /\ \A k \in 1..Len(t) : \A n \in 1..Len(t) :
              (k < n /\ t[k].dir = t[n].dir) =>
                 /\ \/ t[k].stem # t[n].stem
                    \/ t[k].extension # t[n].extension
                    \/ t[k].has_extension # t[n].has_extension
                 /\ t[n].fails # "read_dir_utf8()?" }

InitCollect ==
    /\ collect_pc = "validate"
    /\ source_files \in SourceTrees(CollectFiles)
    /\ keep_names \in BOOLEAN
    /\ no_delete \in BOOLEAN
    /\ final_links \in { << >>, << "a.jpg" >> }
    /\ collected = 0
    /\ source_state = "present"
    /\ collect_result = SortPending
    /\ RepositoryIdle
    /\ CreatePilesIdle
    /\ CacheIdle
    /\ SortIdle
    /\ LoadIdle
    /\ OpenIdle
    /\ ContractIdle
    /\ OlderIdle

outsideCollect ==
    << repositoryVars, createPilesVars, cacheVars, sortVars, loadVars, openVars, contractVars, olderVars >>

NextCollect ==
    \/ CollectCreateDir /\ UNCHANGED outsideCollect
    \/ CollectNext /\ UNCHANGED outsideCollect
    \/ CollectReturn /\ UNCHANGED outsideCollect
    \/ RemoveDirAll /\ UNCHANGED outsideCollect

CollectSpec == InitCollect /\ [][NextCollect]_vars


\* ------------------------------------------------------------------------
\* The older engine beside the engine of repository.rs: OlderSpec starts
\* where OlderFiles images are loaded and gives each pair the older fold
\* takes to the closures of both folds.

\* The number of images.
OlderFiles == 4

\* The hashes of the images: two of them differ in ten bits for each step
\* between their kinds, so that images one step apart pass the filter and
\* images two steps apart, 20 bits, do not.
OlderHash(kind) == 1..(10 * (kind - 1))

\* The images of a choice of kinds.
OlderImages(kinds) ==
    [k \in 1..OlderFiles |-> [path |-> k, timestamp |-> 84600, hash |-> OlderHash(kinds[k])]]

InitOlder ==
    /\ dir = << >>
    /\ pc = "fold"
    /\ loaded = OlderFiles
    /\ \E kinds \in [1..OlderFiles -> 1..OlderFiles] : images = OlderImages(kinds)
    /\ failed = {}
    /\ next = 0
    /\ inflight = {}
    /\ matched = { c \in (1..OlderFiles) \X (1..OlderFiles) :
                      c[1] < c[2] /\ OlderMatches(images[c[1]], images[c[2]]) }
    /\ consumed = {}
    /\ selfTaken = {}
    /\ piles = << >>
    /\ stats = << >>
    /\ panic = ""
    /\ CreatePilesIdle
    /\ CacheIdle
    /\ SortIdle
    /\ LoadIdle
    /\ OpenIdle
    /\ CollectIdle
    /\ ContractIdle
    /\ OlderIdle

\* The number of pairs the folds have taken.
OlderTaken == Cardinality(consumed) + Cardinality(selfTaken)

\* One step of both folds on the next pair.
OlderFold ==
    /\ pc = "fold" /\ older_panic = "" /\ panic = ""
    /\ OlderTaken < Len(OlderPairs(images))
    /\ LET p == OlderPairs(images)[OlderTaken + 1]
       IN  /\ older_piles' = OlderFoldPiles(older_piles, images[p[1]], images[p[2]])
           /\ older_panic' = OlderFoldPanic(older_piles, images[p[1]], images[p[2]])
           /\ FoldStep(p)
           /\ consumed' = IF p[1] # p[2] THEN consumed \cup {p} ELSE consumed
           /\ selfTaken' = IF p[1] = p[2] THEN selfTaken \cup {p[1]} ELSE selfTaken
    /\ UNCHANGED << dir, pc, loaded, images, failed, next, inflight, matched, stats >>

\* The pair list is exhausted: the folds return their pile vectors.
OlderReturn ==
    /\ pc = "fold" /\ older_panic = "" /\ panic = ""
    /\ OlderTaken = Len(OlderPairs(images))
    /\ pc' = "done"
    /\ UNCHANGED << dir, loaded, images, failed, next, inflight, matched, consumed,
                    selfTaken, piles, stats, panic, olderVars >>

outsideOlder ==
    << createPilesVars, cacheVars, sortVars, loadVars, openVars, collectVars, contractVars >>

NextOlder ==
    \/ OlderFold /\ UNCHANGED outsideOlder
    \/ OlderReturn /\ UNCHANGED outsideOlder

OlderSpec == InitOlder /\ [][NextOlder]_vars

\* ------------------------------------------------------------------------
\* Vocabulary of the properties.

\* The paths of the pictures of a pile.
PathsOf(pile) == { p.path : p \in pile.pictures }

\* The paths of the loaded images.
ImagePaths == { images[k].path : k \in 1..Len(images) }

\* The grouping of the paths that a pile vector stands for.
Grouping(ps) == { PathsOf(ps[n]) : n \in 1..Len(ps) }

\* Images at positions a and b form a matched pair.
MatchedPair(a, b) == a # b /\ Matches(images[a], images[b])

\* The positions joined to the positions of S by chains of matched pairs.
RECURSIVE ChainedTo(_)
ChainedTo(S) ==
    LET more == S \cup { b \in 1..Len(images) :
                           \E a \in S : MatchedPair(a, b) \/ MatchedPair(b, a) }
    IN  IF more = S THEN S ELSE ChainedTo(more)

\* The connected components of the match relation, as sets of paths.
Components ==
    { { images[b].path : b \in ChainedTo({a}) } : a \in 1..Len(images) }

\* Positions a and b are in one pile of the pile vector.
SamePile(a, b) ==
    \E n \in 1..Len(piles) :
        images[a].path \in PathsOf(piles[n]) /\ images[b].path \in PathsOf(piles[n])

\* The pairs the fold of Spec or FoldSpec can take next, as pairs of positions.
Pending ==
    IF FoldReady
    THEN (matched \ consumed) \cup { <<k, k>> : k \in (1..Len(images)) \ selfTaken }
    ELSE {}

\* The pending pairs whose step is a merge of two piles.
PendingMerges ==
    { p \in Pending :
        /\ Position(piles, images[p[1]]) >= 0
        /\ Position(piles, images[p[2]]) >= 0
        /\ Position(piles, images[p[1]]) # Position(piles, images[p[2]]) }

\* ------------------------------------------------------------------------
\* C1: the piles are pairwise disjoint (no path in two piles) after every
\* step of the fold, and when Repository::new has finished every loaded
\* image is in a pile and every pile member is a loaded image.
C1_PartitionTotality ==
    /\ \A m, n \in 1..Len(piles) :
          m # n => PathsOf(piles[m]) \cap PathsOf(piles[n]) = {}
    /\ \A n \in 1..Len(piles) :
          Cardinality(PathsOf(piles[n])) = Cardinality(piles[n].pictures)
    /\ pc = "done" => UNION Grouping(piles) = ImagePaths

\* Repository::new has finished with several piles, one of them merged from
\* several images.
C1_Witness ==
    /\ pc = "done"
    /\ Len(piles) >= 2
    /\ \E n \in 1..Len(piles) : Cardinality(piles[n].pictures) >= 2

\* C2: images joined by a chain of matched pairs are in the same pile of
\* the final pile list.
C2_TransitiveClosure ==
    pc \in {"stats", "done"} =>
        \A a \in 1..Len(images) : \A b \in ChainedTo({a}) : SamePile(a, b)

\* A matches B, B matches C, A does not match C, and the three share a pile
\* of the final list.
C2_Witness ==
    /\ pc = "done"
    /\ \E a, b, c \in 1..Len(images) :
          /\ MatchedPair(a, b) /\ MatchedPair(b, c)
          /\ ~MatchedPair(a, c) /\ ~MatchedPair(c, a) /\ a # c
          /\ SamePile(a, b) /\ SamePile(b, c)

\* C3: in every merge step the index computed after swap_remove(j) is inside
\* the vector and designates the pile that held l; the step leaves one pile
\* less, the designated pile holds the members of both piles, and every third
\* pile is kept as it was.
C3_MergeIndex ==
    /\ panic # "piles[pile_index]"
    /\ \A p \in PendingMerges :
          LET i == Position(piles, images[p[1]])
              j == Position(piles, images[p[2]])
              rest == SwapRemove(piles, j)
              pile_index == PileIndex(i, j, Len(rest))
              after == FoldPiles(piles, images[p[1]], images[p[2]])
          IN  /\ pile_index \in 0..(Len(rest) - 1)
              /\ rest[pile_index + 1] = piles[i + 1]
              /\ Len(after) = Len(piles) - 1
              /\ PathsOf(after[pile_index + 1]) =
                     PathsOf(piles[i + 1]) \cup PathsOf(piles[j + 1])
              /\ \A k \in 0..(Len(piles) - 1) :
                    k \notin {i, j} =>
                        \E m \in 0..(Len(after) - 1) :
                            m # pile_index /\ after[m + 1] = piles[k + 1]

\* A merge is about to happen in which the pile of l is the last of three or
\* more piles, so that swap_remove moves it to index j.
C3_Witness ==
    \E p \in PendingMerges :
        /\ Len(piles) >= 3
        /\ Position(piles, images[p[1]]) = Len(piles) - 1
        /\ Position(piles, images[p[2]]) < Len(piles) - 1

\* C4: whatever the order in which the matched pairs and the self-pairs
\* reach the fold, the final grouping of the paths is the same: the set of
\* the connected components of the match relation, which the images alone
\* determine.
C4_OrderIndependent ==
    pc \in {"stats", "done"} => Grouping(piles) = Components

\* The final list holds several piles in an order that is not the order of
\* the images: the first image is not in the first pile.
C4_Witness ==
    /\ pc = "done"
    /\ Len(piles) >= 2
    /\ images[1].path \notin PathsOf(piles[1])
    /\ \E n \in 1..Len(piles) : Cardinality(piles[n].pictures) >= 2

\* C5: the date of every pile is the least calendar date of its members'
\* timestamps, in every state.
C5_DateIsMinimum ==
    \A n \in 1..Len(piles) :
        /\ piles[n].pictures # {}
        /\ \E p \in piles[n].pictures : piles[n].date = DateOf(p.timestamp)
        /\ \A p \in piles[n].pictures : piles[n].date <= DateOf(p.timestamp)

\* A pile holds images of two calendar days.
C5_Witness ==
    \E n \in 1..Len(piles) :
        \E p, q \in piles[n].pictures : DateOf(p.timestamp) < DateOf(q.timestamp)

\* C6: no pile of the pile vector is ever empty, and the expect of
\* Pile::update_date never panics.
C6_NonEmpty ==
    /\ \A n \in 1..Len(piles) : piles[n].pictures # {}
    /\ panic # "computing pile date"

\* The fold has run to its end and left a pile of one picture next to a pile
\* of three or more.
C6_Witness ==
    /\ pc = "done"
    /\ \E m, n \in 1..Len(piles) :
          Cardinality(piles[m].pictures) = 1 /\ Cardinality(piles[n].pictures) >= 3

\* The number of bit positions of the 128-bit hashes in which h1 and h2 differ.
HammingDistance(h1, h2) ==
    Cardinality({ b \in 0..(HashBits - 1) : (b \in h1) # (b \in h2) })

\* The seconds between the timestamps of two images.
SecondsApart(x, y) ==
    IF x.timestamp >= y.timestamp THEN x.timestamp - y.timestamp
    ELSE y.timestamp - x.timestamp

\* The collected pair list is handed to the fold, which has not taken a pair.
PairsCollected == pc = "fold" /\ consumed = {} /\ selfTaken = {}

\* C7: in the collected pair list two distinct images are a matched pair
\* (once, the earlier image first) exactly when their hashes differ in fewer
\* than 10 bits and their timestamps are less than 30 minutes apart; the
\* filter answers the same for (a, b) and (b, a).
C7_MatchPredicate ==
    PairsCollected =>
          /\ \A a, b \in 1..Len(images) :
                Matches(images[a], images[b]) = Matches(images[b], images[a])
          /\ \A c \in matched : c[1] < c[2]
          /\ \A a, b \in 1..Len(images) :
                a < b =>
                    ( <<a, b>> \in matched <=>
                        /\ HammingDistance(images[a].hash, images[b].hash) < 10
                        /\ SecondsApart(images[a], images[b]) < 30 * 60 )

\* The collected pairs of a directory that holds a pair 9 bits and 29:59
\* apart (matched), a pair 0 bits and exactly 30:00 apart and a pair 0 s and
\* exactly 10 bits apart (both not matched).
C7_Witness ==
    /\ PairsCollected
    /\ \E a, b \in 1..Len(images) :
          /\ HammingDistance(images[a].hash, images[b].hash) = 9
          /\ SecondsApart(images[a], images[b]) = 30 * 60 - 1
          /\ <<a, b>> \in matched
    /\ \E a, b \in 1..Len(images) :
          /\ HammingDistance(images[a].hash, images[b].hash) = 0
          /\ SecondsApart(images[a], images[b]) = 30 * 60
          /\ a < b /\ <<a, b>> \notin matched
    /\ \E a, b \in 1..Len(images) :
          /\ HammingDistance(images[a].hash, images[b].hash) = 10
          /\ SecondsApart(images[a], images[b]) = 0
          /\ a < b /\ <<a, b>> \notin matched

\* Image a matches no other image.
Unmatched(a) ==
    \A b \in 1..Len(images) : ~MatchedPair(a, b) /\ ~MatchedPair(b, a)

\* C8: an image that matches no other image ends in a pile of its own; a
\* self-pair still ahead of the fold appends a one-member pile when its image
\* is in no pile and changes nothing when it is in one; three mutually
\* matching images and a fourth that matches none of them end in exactly two
\* piles, of three and of one.
C8_Singletons ==
    /\ pc \in {"stats", "done"} =>
          \A a \in 1..Len(images) :
              Unmatched(a) => \E n \in 1..Len(piles) : piles[n].pictures = {images[a]}
    /\ \A p \in Pending :
          p[1] = p[2] =>
              LET image == images[p[1]]
              IN  /\ FoldPanic(piles, image, image) = ""
                  /\ FoldPiles(piles, image, image) =
                        IF \E n \in 1..Len(piles) : image.path \in PathsOf(piles[n])
                        THEN piles
                        ELSE piles \o << [pictures |-> {image},
                                          date |-> DateOf(image.timestamp)] >>
    /\ ( /\ pc \in {"stats", "done"}
         /\ Len(images) = 4
         /\ \E d \in 1..4 :
               /\ Unmatched(d)
               /\ \A a, b \in (1..4) \ {d} :
                     a # b => MatchedPair(a, b) /\ MatchedPair(b, a) )
       => /\ Len(piles) = 2
          /\ { Cardinality(piles[n].pictures) : n \in 1..2 } = {1, 3}

\* Repository::new has finished on three mutually matching images and a
\* fourth that matches none of them.
C8_Witness ==
    /\ pc = "done"
    /\ Len(images) = 4
    /\ \E d \in 1..4 :
          /\ Unmatched(d)
          /\ \A a, b \in (1..4) \ {d} : a # b => MatchedPair(a, b)
          /\ \E n \in 1..Len(piles) : piles[n].pictures = {images[d]}

\* While the files are loaded and the pairs are filtered the pile vector is
\* untouched; once the fold has started no worker holds a combination, the
\* iterator is exhausted and the pair list is complete.
C9_Phases ==
    /\ pc \in {"load", "filter"} =>
          piles = << >> /\ consumed = {} /\ selfTaken = {}
    /\ inflight # {} => pc = "filter"
    /\ pc \in {"fold", "stats", "done"} =>
          /\ inflight = {}
          /\ next = Len(TupleCombinations(Len(images)))
          /\ matched = MatchedOf(images)

\* A step that changes the pile vector is a step of the fold: it takes exactly
\* one pair of the list and applies the closure to the vector the previous
\* step left; no step of a filter worker goes with it.
C9_FoldStep ==
    piles' # piles =>
        /\ pc = "fold" /\ pc' = "fold"
        /\ inflight = {} /\ inflight' = {} /\ matched' = matched /\ next' = next
        /\ \E p \in Pending :
              /\ piles' = FoldPiles(piles, images[p[1]], images[p[2]])
              /\ \/ consumed' = consumed \cup {p} /\ selfTaken' = selfTaken
                 \/ consumed' = consumed /\ selfTaken' = selfTaken \cup {p[1]}

\* C9: the fold starts only after the parallel filter has finished
\* collecting the matched pairs, its steps come one at a time, and no filter
\* worker runs beside it.
C9_FoldAfterFilter == [](C9_Phases) /\ [][C9_FoldStep]_vars

\* The fold is under way on a pair list of three or more matched pairs that
\* two workers filtered.
C9_Witness ==
    /\ pc = "fold"
    /\ Cardinality(matched) >= 3
    /\ Cardinality(consumed) >= 2
    /\ Len(piles) >= 1

\* C10: a failed load does not abort Repository::new; when the run has
\* finished the piles hold exactly the files whose load did not fail.
C10_FailedLoadsSkipped ==
    /\ failed # {} => panic = ""
    /\ \A f \in failed : \A n \in 1..Len(piles) : f \notin PathsOf(piles[n])
    /\ pc = "done" => UNION Grouping(piles) = Files \ failed

\* ------------------------------------------------------------------------
\* C11: Repository::new computes and presents the aggregate statistics for any
\* number of files that failed to load, the directory in which no file loads
\* (an empty pile vector) included: once the fold has returned the pile
\* vector, Stats::from_piles does not abort, and when Repository::new has
\* returned the statistics count the images that loaded.
C11_StatsForAnyFailures ==
    /\ pc = "stats" => panic = ""
    /\ pc = "done" =>
         /\ stats.total_pics = NumFiles - Cardinality(failed)
         /\ stats.total_piles = Len(piles)

\* ------------------------------------------------------------------------
\* The names of the dates of the sample images, and the four-digit suffixes.
DateNames == << "1970-01-01", "1970-01-02" >>

Suffixes == << "0000", "0001", "0002", "0003", "0004" >>

\* The number of piles with the date of the pile at position m that precede
\* it in the pile vector.
SameDateBefore(m) ==
    Cardinality({ k \in 1..(m - 1) : piles[k].date = piles[m].date })

\* The directory name the claim gives the pile at position m.
PileDirName(m) ==
    DateNames[piles[m].date + 1] \o "_" \o Suffixes[SameDateBefore(m) + 1]

\* C12: create_piles names the directory of each pile {date}_{n:04}, n being
\* the number of piles of the same date that precede it in the pile vector, so
\* that k piles of one date get 0000, 0001, ..., k-1 in the order of the
\* vector; the directories in the destination are the ones so named, and the
\* names of the piles of one run differ from each other.
C12_DirectoryNames ==
    /\ \A m \in 1..Len(timestamps) : timestamps[m] = PileDirName(m)
    /\ \A m \in 1..Len(timestamps) : \A k \in 1..Len(timestamps) :
         m # k => timestamps[m] # timestamps[k]
    /\ destDirs \subseteq { PileDirName(m) : m \in 1..Len(timestamps) }
    /\ result.state = "ok" => destDirs = { PileDirName(m) : m \in 1..Len(piles) }

\* create_piles has returned Ok for three piles, two of day 0 with a pile of
\* day 1 between them.
C12_Witness ==
    /\ result.state = "ok"
    /\ timestamps = << "1970-01-01_0000", "1970-01-02_0000", "1970-01-01_0001" >>
    /\ destDirs = { "1970-01-01_0000", "1970-01-02_0000", "1970-01-01_0001" }

\* ------------------------------------------------------------------------
\* The image at whose picture the inner loop stopped: it was visited and has
\* no link in the directory of the current pile.
Unlinked ==
    { image \in linked :
        ~\E l \in destLinks :
            l.dir = timestamps[Len(timestamps)] /\ l.source = image.path }

\* C13: when the hard link of an image fails in create_piles, because the link
\* name is taken or because the call is refused, the error that create_piles
\* returns names the source path of that image.
C13_LinkErrorNamesSource ==
    (result.state = "err" /\ result.op = "hard_link") =>
        /\ Unlinked # {}
        /\ \A image \in Unlinked : image.path \in result.paths

\* ------------------------------------------------------------------------
\* The pile at position m is materialized: its directory exists and holds a
\* link to each of its pictures.
Materialized(m) ==
    /\ m <= Len(timestamps)
    /\ timestamps[m] \in destDirs
    /\ \A image \in piles[m].pictures :
         \E l \in destLinks : l.dir = timestamps[m] /\ l.source = image.path

\* The directories the outer loop failed to create.
Uncreated == { m \in 1..Len(timestamps) : timestamps[m] \notin destDirs }

\* create_piles has returned.
Returned == result.state \in {"ok", "err"}

\* While create_piles runs no call has failed; an error of a directory
\* creation or of a hard link is the only failure of the run, it is a failure
\* of the last pile and the last picture the loops reached, and it leaves
\* info.txt unwritten; info.txt exists only when every pile is materialized.
C14_State ==
    /\ result.state = "running" => Uncreated = {} /\ Unlinked = {}
    /\ (result.state = "err" /\ result.op = "create_dir") =>
         /\ Uncreated = {Len(timestamps)} /\ linked = {}
         /\ \A m \in 1..(Len(timestamps) - 1) : Materialized(m)
         /\ destInfo = "absent"
    /\ (result.state = "err" /\ result.op = "hard_link") =>
         /\ Uncreated = {} /\ Cardinality(Unlinked) = 1
         /\ \A m \in 1..(Len(timestamps) - 1) : Materialized(m)
         /\ Cardinality({ l \in destLinks : l.dir = timestamps[Len(timestamps)] })
              = Cardinality(linked) - 1
         /\ destInfo = "absent"
    /\ destInfo # "absent" => \A m \in 1..Len(piles) : Materialized(m)

\* A step removes nothing from the destination, and after the return of
\* create_piles nothing is processed or written.
C14_Step ==
    /\ destDirs \subseteq destDirs'
    /\ destLinks \subseteq destLinks'
    /\ Returned => UNCHANGED << destDirs, destLinks, destInfo, timestamps, linked, result >>

\* C14: when a directory creation or a hard link fails, create_piles returns
\* the error at once: no later picture or pile is processed, info.txt is not
\* written, and what was created before the failure stays in the destination;
\* info.txt is written only after every pile was materialized.
C14_FailFast == [](C14_State) /\ [][C14_Step]_vars

\* A hard link has failed in the second pile of three, after the first pile
\* was materialized and a picture of the second was linked: both directories
\* and the links are in the destination, the third pile has no directory.
C14_Witness ==
    /\ result.state = "err" /\ result.op = "hard_link"
    /\ Len(timestamps) = 2 /\ Len(piles) = 3
    /\ Cardinality(destDirs) = 2
    /\ Materialized(1)
    /\ destInfo = "absent"

\* ------------------------------------------------------------------------
\* C15: in a cache created with a capacity c >= 1 the number of resident
\* entries is at most c after any sequence of calls of push and get_or_insert.
C15_Bounded ==
    capacity >= 1 => Len(cache) <= capacity /\ Cardinality(KeysOf(cache)) = Len(cache)

\* A cache of capacity 2 is full after more than two pushes and an insertion
\* by get_or_insert.
C15_Witness ==
    /\ capacity = 2 /\ Len(cache) = 2
    /\ Len(returned) >= 3
    /\ call.op = "get_or_insert" /\ call.f_calls = 1

\* The entries of a cache, as a set.
Entries(c) == { c[n] : n \in 1..Len(c) }

\* The step inserts an entry under a key that is not resident, into a cache
\* that is at capacity.
InsertsAtCapacity ==
    /\ capacity >= 1 /\ Len(cache) = capacity
    /\ call'.op \in {"push", "get_or_insert"}
    /\ call'.key \notin KeysOf(cache)
    /\ call'.key \in KeysOf(cache')

\* The resident entry whose latest access is the oldest.
LeastRecent == cache[IndexOf(cache, recent[Len(recent)])]

C16_Step ==
    InsertsAtCapacity =>
        /\ KeysOf(cache) = { recent[n] : n \in 1..Len(recent) }
        /\ Entries(cache) \ Entries(cache') = { LeastRecent }
        /\ Entries(cache') \ Entries(cache) =
             { [key |-> call'.key, value |-> call'.value] }

\* C16: when push, or get_or_insert of an absent key, inserts into a cache at
\* capacity, exactly one entry is evicted, the resident entry whose most
\* recent access (its push, or a get_or_insert that hit or inserted it) is the
\* oldest, and every other resident entry stays.
C16_EvictsLeastRecent == [][C16_Step]_vars

\* Keys 0 and 1 were pushed into a cache of capacity 2, a get_or_insert hit
\* key 0, and the third push evicted key 1, the older of the two accesses.
C16_Witness ==
    /\ capacity = 2
    /\ returned = << 0, 1, 2 >>
    /\ call.op = "push" /\ call.key = 2
    /\ KeysOf(cache) = {0, 2}
    /\ recent = << 2, 0 >>

\* C17: every call of push returns a key greater than every key the cache
\* returned before, the first key being 0 and each push adding 1, so that no
\* two pushes return the same key, however many pushes there are.
C17_KeysIncrease ==
    /\ \A n \in 1..Len(returned) : returned[n] = n - 1
    /\ \A n \in 1..Len(returned) : \A m \in 1..Len(returned) :
         n < m => returned[n] < returned[m]
    /\ panic # "attempt to add with overflow"

C18_Step ==
    (capacity >= 1 /\ call'.op = "get_or_insert" /\ << call, cache >>' # << call, cache >>) =>
        /\ call'.key \in KeysOf(cache')
        /\ cache'[1] = [key |-> call'.key, value |-> call'.value]
        /\ IF call'.key \in KeysOf(cache)
           THEN /\ call'.f_calls = 0
                /\ [key |-> call'.key, value |-> call'.value] \in Entries(cache)
                /\ Entries(cache') = Entries(cache)
           ELSE /\ call'.f_calls = 1
                /\ Entries(cache') \ Entries(cache) =
                     { [key |-> call'.key, value |-> call'.value] }

\* C18: get_or_insert(k, f) on a cache of capacity >= 1 returns the stored
\* value of a resident k without calling f and makes k the most recently used
\* entry; for an absent k it calls f once, stores the value under k and
\* returns it, and k is resident afterwards.
C18_GetOrInsert == [][C18_Step]_vars

\* A get_or_insert has hit the key 0, which was pushed before the key 1, and
\* has returned the value pushed under it.
C18_Witness ==
    /\ capacity = 2
    /\ returned = << 0, 1 >>
    /\ call = [op |-> "get_or_insert", key |-> 0, value |-> "v", f_calls |-> 0]
    /\ Len(cache) = 2 /\ cache[1].key = 0 /\ cache[2] = [key |-> 1, value |-> "w"]

\* C19: get_or_insert does not panic on a cache created with capacity zero.
C19_ZeroCapacity ==
    capacity = 0 => panic # "zero sized cache"

\* ------------------------------------------------------------------------
\* Sort::run has returned the error of the validation of the destination.
ValidationFailed ==
    /\ sort_result.state = "err"
    /\ sort_result.message \in
         { "Cannot create directory", "read_dir", "Target directory not empty." }

\* Repository::new has not been called, and nothing was materialized or opened.
NothingDone ==
    /\ pc = "idle" /\ loaded = 0 /\ images = << >> /\ failed = {} /\ piles = << >>
    /\ result = NotCalled /\ timestamps = << >> /\ destLinks = {}
    /\ entries = << >> /\ opened = << >>

C20_State ==
    /\ sort_pc = "validate" => NothingDone
    /\ ValidationFailed => sort_pc = "returned" /\ NothingDone
    /\ pc # "idle" => dest_exists /\ sort_pc # "validate" /\ ~ValidationFailed

\* The validation creates a missing destination, rejects a destination that
\* holds an entry, and leaves the entries of the destination as they are.
C20_Step ==
    /\ sort_pc = "validate" =>
         /\ DestEntries # {} => sort_result'.state = "err" /\ sort_pc' = "returned"
         /\ sort_result'.message = "Target directory not empty." =>
              DestEntries # {} /\ dest_exists'
         /\ sort_pc' = "new" => dest_exists' /\ DestEntries = {}
         /\ UNCHANGED << destDirs, destLinks, destInfo >>
    /\ sort_pc = "returned" => UNCHANGED << repositoryVars, createPilesVars, sortVars >>

\* C20: in Sort::run the validation of the destination (the directory is
\* created when it is missing, "Target directory not empty." when it holds an
\* entry) comes before Repository::new: when it fails, no image is loaded or
\* clustered and nothing is materialized or opened.
C20_ValidationFirst == [](C20_State) /\ [][C20_Step]_vars

\* Sort::run has returned "Target directory not empty." for a destination
\* with the pile directory of an earlier run, which is still its only entry.
C20_Witness ==
    /\ sort_pc = "returned"
    /\ sort_result = SortErr("Target directory not empty.")
    /\ destDirs = { PathOrder[1] } /\ destInfo = "absent"
    /\ NothingDone


\* ------------------------------------------------------------------------
\* The differences of the timestamps of two pictures of one pile, in seconds.
Spreads ==
    UNION { { p.timestamp - q.timestamp : p \in piles[n].pictures, q \in piles[n].pictures } :
            n \in 1..Len(piles) }

\* C25: for a non-empty final pile list the statistics are: total image
\* count = sum of the pile sizes = number of loaded images; total pile count =
\* number of piles; maximum pile size = the largest pile size; median pile
\* size = the element at index floor(n/2) of the sizes sorted ascending;
\* longest time delta = the largest max - min timestamp within one pile, in
\* whole minutes, 0 when every pile is a singleton.
C25_Statistics ==
    (pc = "done" /\ Len(piles) > 0) =>
        LET n == Len(piles)
            size(m) == Cardinality(piles[m].pictures)
            below(v) == Cardinality({ m \in 1..n : size(m) < v })
            upto(v) == Cardinality({ m \in 1..n : size(m) <= v })
        IN  /\ stats.total_pics = Cardinality(UNION { PathsOf(piles[m]) : m \in 1..n })
            /\ stats.total_pics = Len(images)
            /\ stats.total_pics = loaded - Cardinality(failed)
            /\ stats.total_piles = n
            /\ \E m \in 1..n : size(m) = stats.max_pile_size
            /\ \A m \in 1..n : size(m) <= stats.max_pile_size
            /\ below(stats.median_pile_size) <= n \div 2
            /\ n \div 2 < upto(stats.median_pile_size)
            /\ \E s \in Spreads : s >= stats.longest_time_delta * SecondsPerMinute
            /\ \A s \in Spreads : s < (stats.longest_time_delta + 1) * SecondsPerMinute
            /\ (\A m \in 1..n : size(m) = 1) => stats.longest_time_delta = 0

\* Repository::new has finished with an even number of piles of different
\* sizes: the median is the upper middle size; and the statistics of a pile
\* with pictures less than a minute to half an hour apart are truncated.
C25_Witness ==
    /\ pc = "done" /\ Len(piles) = 2
    /\ Cardinality(piles[1].pictures) # Cardinality(piles[2].pictures)
    /\ stats.median_pile_size = stats.max_pile_size
    /\ stats.max_pile_size > 1

\* ------------------------------------------------------------------------
\* The pairs the fold takes in the step.
Taken ==
    (consumed' \ consumed) \cup { << k, k >> : k \in selfTaken' \ selfTaken }

\* A step that takes a pair whose images are in two different piles removes
\* one pile, leaves the union in one pile whose date is the least date of the
\* union, and keeps every other pile; only the pile that was last moves.
C26_Step ==
    \A p \in Taken :
        LET i == Position(piles, images[p[1]])
            j == Position(piles, images[p[2]])
            last == Len(piles) - 1
        IN  (i >= 0 /\ j >= 0 /\ i # j) =>
                /\ Len(piles') = Len(piles) - 1
                /\ \E s \in 1..Len(piles') :
                      /\ piles'[s].pictures = piles[i + 1].pictures \cup piles[j + 1].pictures
                      /\ \A q \in piles'[s].pictures : piles'[s].date <= DateOf(q.timestamp)
                      /\ \E q \in piles'[s].pictures : piles'[s].date = DateOf(q.timestamp)
                      /\ { piles'[m] : m \in (1..Len(piles')) \ {s} }
                            = { piles[k + 1] : k \in (0..last) \ {i, j} }
                /\ \A k \in (0..(last - 1)) \ {i, j} : piles'[k + 1] = piles[k + 1]
                /\ panic' = panic

\* C26: a merge step (l and r in two different piles) reduces the number of
\* piles by exactly one, leaves in the surviving pile exactly the union of the
\* members of the two piles, recomputes its date as the minimum over the
\* union, and leaves membership and date of every other pile unchanged (only
\* the index of the pile that was last may change).
C26_MergeStep == [][C26_Step]_vars

\* The fold is at a pair whose images are in two different piles, the pile of
\* the right image has the earlier date, and a third pile is the last one.
C26_Witness ==
    \E p \in PendingMerges :
        LET i == Position(piles, images[p[1]])
            j == Position(piles, images[p[2]])
        IN  /\ piles[j + 1].date < piles[i + 1].date
            /\ Len(piles) = 3 /\ i # 2 /\ j # 2

\* ------------------------------------------------------------------------
\* The step adds the image to the pile at index i and changes nothing else
\* of the pile collection.
AddedTo(i, image) ==
    /\ Len(piles') = Len(piles)
    /\ piles'[i + 1].pictures = piles[i + 1].pictures \cup {image}
    /\ image \notin piles[i + 1].pictures
    /\ \A k \in 0..(Len(piles) - 1) : k # i => piles'[k + 1] = piles[k + 1]

C27_Step ==
    \A p \in Taken :
        LET l == images[p[1]]
            r == images[p[2]]
            i == Position(piles, l)
            j == Position(piles, r)
        IN  /\ (i >= 0 /\ j < 0) => AddedTo(i, r)
            /\ (i < 0 /\ j >= 0) => AddedTo(j, l)
            /\ (i >= 0 /\ i = j) => piles' = piles

\* C27: when exactly one image of a matched pair is already in a pile, the
\* fold step adds the other image to that same pile and does nothing else (the
\* pile count is unchanged, no other pile changes, the placed image stays);
\* when both are already in the same pile, the step leaves the pile
\* collection unchanged.
C27_PushStep == [][C27_Step]_vars

\* The fold has taken three matched pairs of three images and no self-pair:
\* the first pair made the pile, the second added the third image to it, the
\* third found both images in it.
C27_Witness ==
    /\ selfTaken = {} /\ Cardinality(consumed) = 3
    /\ Len(piles) = 1 /\ Cardinality(piles[1].pictures) = 3

\* ------------------------------------------------------------------------
\* The field holds a date/time of the grammar YYYY:MM:DD HH:MM:SS.
SyntacticallyValid(field) ==
    /\ field.kind = "Ascii"
    /\ LET text == Flattened(field.components)
       IN  /\ Len(text) >= 19
           /\ \A n \in 1..19 :
                 IF n \in {5, 8, 14, 17} THEN text[n] = ":"
                 ELSE IF n = 11 THEN text[n] = " "
                 ELSE text[n] \in {"0", "1", "2", "3", "4", "5", "6", "7", "8", "9"}

\* The file has an EXIF container that parses and a date/time in it.
HasExifDate(f) ==
    f.container /\ \E l \in LookupSet : SyntacticallyValid(f.fields[l])

\* C23: a file whose EXIF container cannot be parsed, or that has no valid
\* EXIF date, still loads: its timestamp is the filesystem creation time, or
\* the last-access time when the creation time is unavailable, and the load
\* fails on the timestamp only when both filesystem times are unavailable; an
\* EXIF parse failure alone never makes Image::load or ImageData::load return
\* an error.
C23_FilesystemFallback ==
    (load_result.op \in {"ImageData::load", "Image::load"}
        /\ file.readable /\ ~HasExifDate(file)) =>
        LET has_created == file.metadata /\ file.created
            has_accessed == file.metadata /\ file.accessed
            decodes == load_result.op = "ImageData::load" \/ file.decodable
        IN  /\ load_result.state \in {"Ok", "Err"}
            /\ (has_created /\ decodes) =>
                  /\ load_result.state = "Ok"
                  /\ load_result.timestamp = file.created_at + file.utc_offset
            /\ (~has_created /\ has_accessed /\ decodes) =>
                  /\ load_result.state = "Ok"
                  /\ load_result.timestamp = file.accessed_at + file.utc_offset
            /\ (~has_created /\ ~has_accessed) =>
                  load_result.state = "Err" /\ load_result.error = "IoError"
            /\ load_result.state = "Err" =>
                  \/ ~has_created /\ ~has_accessed /\ load_result.error = "IoError"
                  \/ ~decodes /\ load_result.error = "InvalidImage"

\* Image::load has returned an image of a file whose EXIF container does not
\* parse and whose creation time is unavailable: the timestamp is the
\* last-access time.
C23_Witness ==
    /\ load_result.op = "Image::load" /\ load_result.state = "Ok"
    /\ ~file.container
    /\ ~file.created /\ file.accessed
    /\ load_result.timestamp = file.accessed_at + file.utc_offset

\* ------------------------------------------------------------------------
\* The order of the fields the timestamp is searched in.
FieldOrder ==
    << << "DateTimeOriginal", "PRIMARY" >>, << "DateTimeOriginal", "THUMBNAIL" >>,
       << "DateTime", "PRIMARY" >>, << "DateTime", "THUMBNAIL" >>,
       << "DateTimeDigitized", "PRIMARY" >>, << "DateTimeDigitized", "THUMBNAIL" >> >>

\* The positions of the fields with a syntactically valid date/time.
ValidFields(f) ==
    { k \in 1..Len(FieldOrder) : f.container /\ SyntacticallyValid(f.fields[FieldOrder[k]]) }

\* C24: parse_time_stamp returns the first syntactically valid date/time in
\* the order (DateTimeOriginal, primary), (DateTimeOriginal, thumbnail),
\* (DateTime, primary), (DateTime, thumbnail), (DateTimeDigitized, primary),
\* (DateTimeDigitized, thumbnail): a field that is missing, not ASCII or not
\* parseable is skipped, and the result is None only when none of the six
\* yields a valid value.
C24_FirstValidField ==
    load_result.op = "parse_time_stamp" =>
        IF ValidFields(file) = {}
        THEN load_result.state = "None"
        ELSE LET first == CHOOSE k \in ValidFields(file) : \A n \in ValidFields(file) : k <= n
                 text == Flattened(file.fields[FieldOrder[first]].components)
             IN  /\ load_result.state = "Some"
                 /\ load_result.timestamp = FromYmdAndHms(FromAscii(text))

\* The same for the files whose first syntactically valid date/time is a
\* date of the calendar and a time of the clock.
C24_FirstValidInRange ==
    load_result.op = "parse_time_stamp" =>
        IF ValidFields(file) = {}
        THEN load_result.state = "None"
        ELSE LET first == CHOOSE k \in ValidFields(file) : \A n \in ValidFields(file) : k <= n
                 text == Flattened(file.fields[FieldOrder[first]].components)
                 dt == FromAscii(text)
             IN  IF FromYmdPanics(dt) \/ AndHmsPanics(dt)
                 THEN load_result.state = "panic"
                 ELSE /\ load_result.state = "Some"
                      /\ load_result.timestamp = FromYmdAndHms(dt)
                      /\ load_result.timestamp \in {84600, 86400}

\* ------------------------------------------------------------------------
\* The entry of the directory with the name.
EntryOf(name) == CHOOSE e \in open_path : e.name = name

\* The names of the directories Open::run has given to the opener.
Shown == { shown[k] : k \in 1..Len(shown) }

C21_State ==
    /\ \A k \in 1..Len(shown) :
          /\ \E e \in open_path : e.name = shown[k] /\ e.is_dir
          /\ \A n \in (k + 1)..Len(shown) :
                \E i \in 1..Len(shown[n]) :
                   /\ \A m \in 1..(i - 1) : m <= Len(shown[k]) /\ shown[k][m] = shown[n][m]
                   /\ i > Len(shown[k]) \/ shown[k][i] < shown[n][i]
    /\ Cardinality(running) <= 1
    /\ running # {} => options.opener /\ running = { shown[Len(shown)] }

\* A step that opens a directory with an opener program is taken when no
\* opener process is running, and opens one directory.
C21_Step ==
    shown' # shown =>
        /\ Len(shown') = Len(shown) + 1
        /\ SubSeq(shown', 1, Len(shown)) = shown
        /\ options.opener => running = {} /\ running' = { shown'[Len(shown')] }

\* C21: Open::run shows the pile directories in strictly ascending
\* lexicographic order of their paths, each at most once, and one at a time:
\* with an opener program the next pile is opened only after the opener
\* process of the previous pile has exited, so at most one opener process
\* runs at any moment.
C21_AscendingOneAtATime == [](C21_State) /\ [][C21_Step]_vars

\* The opener program runs on the second of two directories, the first of
\* which is a prefix of the second.
C21_Witness ==
    /\ options.opener
    /\ Len(shown) = 2 /\ running = { shown[2] }
    /\ shown[1] = << 1 >> /\ shown[2] = << 1, 2 >>

\* ------------------------------------------------------------------------
\* C28: with start_at given, Open::run opens no entry that sorts before the
\* entry whose path equals start_at and begins at that entry; if no entry has
\* a path equal to start_at, it returns the error "Failed to find pile ..."
\* before opening any pile.
C28_StartAt ==
    (start_at.some /\ open_pc # "idle") =>
        /\ \A k \in 1..Len(shown) : ~PathLess(shown[k], start_at.path)
        /\ (open_pc \notin {"start", "returned"} \/ open_result.state = "ok") =>
              /\ \E e \in open_path : e.name = start_at.path
              /\ \A e \in open_path :
                    \/ PathLess(e.name, start_at.path)
                    \/ e.name \in Shown
                    \/ \E k \in 1..Len(open_iter) : open_iter[k] = e
                    \/ ~e.is_dir
                    \/ options.skip_singles /\ e.count < 2
        /\ (\E e \in open_path : e.name = start_at.path /\ e.is_dir /\ e.count >= 2) =>
              (shown # << >> => shown[1] = start_at.path)
        /\ ~(\E e \in open_path : e.name = start_at.path) =>
              /\ shown = << >>
              /\ open_pc \in {"start", "returned"}
              /\ open_pc = "returned" =>
                    open_result \in {OpenErr("Failed to find pile"), OpenErr("read_dir")}

\* Open::run has returned Ok after it has shown the directory start_at names
\* and not the directory that sorts before it.
C28_Witness ==
    /\ start_at = SomePath(<< 1, 1 >>)
    /\ \E e \in open_path : e.name = << 1 >> /\ e.is_dir /\ e.count = 2
    /\ shown = << << 1, 1 >> >>
    /\ open_result = OpenOk

\* ------------------------------------------------------------------------
\* The directories at or after the start position.
FromStart ==
    { e \in open_path : e.is_dir /\ (start_at.some => ~PathLess(e.name, start_at.path)) }

\* Open::run never passes an entry that is not a directory to the opener;
\* with skip_singles it never opens a directory of fewer than two entries,
\* and without skip_singles a run that returns Ok has opened every directory
\* at or after the start position.
C29_OpenedEntries ==
    /\ \A name \in Shown : EntryOf(name).is_dir
    /\ options.skip_singles => \A name \in Shown : EntryOf(name).count >= 2
    /\ (open_result.state = "ok" /\ ~options.skip_singles) =>
          Shown = { e.name : e \in FromStart }

\* C29: Open::run never passes an entry that is not a directory to the
\* opener; with skip_singles it never opens a directory that was read and
\* holds fewer than two entries, and opens a directory that cannot be read;
\* a run that returns Ok has opened every directory at or after the start
\* position that skip_singles does not skip.
C29_OpenedReadable ==
    /\ \A name \in Shown : EntryOf(name).is_dir
    /\ options.skip_singles =>
          \A name \in Shown : EntryOf(name).count >= 2 \/ ~EntryOf(name).readable
    /\ open_result.state = "ok" =>
          Shown = { e.name : e \in { d \in FromStart :
                        ~options.skip_singles \/ d.count >= 2 \/ ~d.readable } }

\* With skip_singles Open::run has returned Ok: it has skipped a directory of
\* one entry and shown a directory of one entry that cannot be read.
C29_Witness ==
    /\ options.skip_singles /\ open_result = OpenOk
    /\ Len(shown) = 1
    /\ EntryOf(shown[1]).count = 1 /\ ~EntryOf(shown[1]).readable
    /\ \E e \in open_path : e.is_dir /\ e.count = 1 /\ e.readable

\* ------------------------------------------------------------------------
\* The files of the pile directories, in the order of the loops of collect.
PileEntries == SelectSeq(source_files, LAMBDA e : e.dir # 0)

\* Every file of every pile directory has been linked into the destination.
AllLinked ==
    /\ collected = Len(source_files)
    /\ Len(final_links) = Len(PileEntries)

\* C22: Collect::run deletes the source tree only after collect has linked
\* every file of every pile directory into the destination without error,
\* and never when no_delete is set: if any step of collect fails, the source
\* tree is left in place.
C22_DeleteAfterCollect ==
    /\ source_state # "present" => ~no_delete /\ AllLinked /\ collect_pc = "returned"
    /\ collect_pc = "delete" => ~no_delete /\ AllLinked
    /\ no_delete => source_state = "present"
    /\ (collect_result.state \in {"err", "panic"}
          /\ collect_result.message # "remove_dir_all") => source_state = "present"
    /\ (collect_pc = "returned" /\ ~AllLinked) =>
          collect_result.state \in {"err", "panic"} /\ source_state = "present"

\* Collect::run has returned Ok: the three files of two pile directories are
\* linked and the source tree is removed.
C22_Witness ==
    /\ collect_result = SortOk /\ source_state = "removed"
    /\ Len(final_links) = 3
    /\ \E k \in 1..Len(source_files) : source_files[k].dir = 2

\* ------------------------------------------------------------------------
\* The stem generate_file_name gives the k-th file of the pile directories.
StemOf(k) ==
    IF keep_names THEN PileEntries[k].stem
    ELSE FormatTimestamp(PileEntries[k].load.timestamp)

\* The files before the k-th with its stem and extension.
SameNameBefore(k) ==
    { j \in 1..(k - 1) :
        StemOf(j) = StemOf(k) /\ PileEntries[j].extension = PileEntries[k].extension }

\* The name of the k-th file with the suffix -n, the plain name for n = 0.
Suffixed(k, n) ==
    IF n = 0 THEN StemOf(k) \o "." \o PileEntries[k].extension
    ELSE StemOf(k) \o "-" \o ToString(n) \o "." \o PileEntries[k].extension

\* The names of the destination are those of a collect into a destination
\* that was empty.
CollectedLinks == Len(final_links) <= collected

\* collect never reuses a destination file name, the first file of a stem
\* and extension keeps the plain name and the k-th later one gets the suffix
\* -k, and a successful collect leaves as many files as the pile directories
\* held.
C30_SuffixByCount ==
    CollectedLinks =>
        /\ \A k \in 1..Len(final_links) :
              /\ \A j \in 1..(k - 1) : final_links[j] # final_links[k]
              /\ final_links[k] = Suffixed(k, Cardinality(SameNameBefore(k)))
        /\ collect_result.state = "ok" => Len(final_links) = Len(PileEntries)

\* C30: collect never overwrites or reuses a destination file name:
\* generate_file_name returns a name that is not in the destination at that
\* moment; a file keeps the plain name when that is free and else gets the
\* least suffix -m (m = 1, 2, ...) whose name is free, which is -k for the
\* k-th later file of a stem and extension unless a file of another stem has
\* taken such a name (it never has when the stems are timestamps); the search
\* ends; and after a successful collect the destination holds as many files
\* as the pile directories held.
C30_FirstFreeSuffix ==
    CollectedLinks =>
        /\ \A k \in 1..Len(final_links) :
              LET earlier == { final_links[j] : j \in 1..(k - 1) }
              IN  /\ final_links[k] \notin earlier
                  /\ \E m \in 0..Len(final_links) :
                        /\ final_links[k] = Suffixed(k, m)
                        /\ \A i \in 0..(m - 1) : Suffixed(k, i) \in earlier
                  /\ ~keep_names =>
                        final_links[k] = Suffixed(k, Cardinality(SameNameBefore(k)))
        /\ collect_result.state = "ok" => Len(final_links) = Len(PileEntries)

\* A collect with keep_names has returned Ok: the second a.jpg is the first
\* later file of its stem and has the suffix -2, because the name with -1 is
\* that of a file of the first pile directory.
C30_Witness ==
    /\ keep_names /\ collect_result = SortOk
    /\ final_links = << "a.jpg", "a-1.jpg", "a-2.jpg" >>

\* ------------------------------------------------------------------------
\* No key was returned twice.
NoKeyReused == Cardinality(ReturnedKeys) = Len(returned)

\* The resident keys are below the next key.
C36_State ==
    panic = "" => \A k \in KeysOf(cache) : k < current_key

\* A push that returns a key inserts it: the key was not resident.
C36_Step ==
    returned' # returned =>
        /\ call'.op = "push"
        /\ call'.key = returned'[Len(returned')]
        /\ call'.key \notin KeysOf(cache)

\* C36: as long as get_or_insert is only called with keys that push of the
\* same cache returned, every resident key is strictly smaller than
\* current_key, so a push never replaces a resident entry and the key it
\* returns is absent from the cache just before the insertion.
C36_ResidentBelowNext == [](C36_State) /\ [][C36_Step]_vars

\* The same, up to the push that returns the last key of the counter: it holds
\* as long as the counter has not wrapped.
C36_BeforeWrap ==
    /\ [](Len(returned) < KeySpace => C36_State)
    /\ [][Len(returned) < KeySpace => C36_Step]_vars

\* A push has returned a key under the contract of C36 into a cache that was
\* full of smaller keys.
C36_Reached ==
    /\ capacity = 2 /\ Len(cache) = 2
    /\ call.op = "push" /\ call.key = 2 /\ current_key = 3
    /\ \E k \in ReturnedKeys : k \notin KeysOf(cache)

\* ------------------------------------------------------------------------
\* The call is for the watched key, the value v was pushed under it and fewer
\* than capacity insertions of other keys have followed its latest access.
FewInsertions(v) == call'.key = watch /\ v \in kept.values

\* The same with every access of another key counted, whether it inserted
\* the key or found it resident.
FewAccesses(v) ==
    /\ call'.key = watch /\ v \in kept.values
    /\ Cardinality(kept.touched) < capacity

\* The key of the call was returned by push and is not resident any more.
Evicted == call'.key \in ReturnedKeys /\ call'.key \notin KeysOf(cache)

\* A call of get_or_insert on a cache of capacity >= 1 returns every value
\* that the window holds and does not call f; for an evicted key it calls f
\* once and returns the value f made.
RoundTrip(Window(_)) ==
    (capacity >= 1 /\ call'.op = "get_or_insert") =>
        /\ \A v \in Values : Window(v) => call'.value = v /\ call'.f_calls = 0
        /\ Evicted => call'.f_calls = 1 /\ call'.value = factory'

\* The round trip with the insertions of other keys counted, as the words
\* "were inserted" read: an access that finds another key resident renews
\* that key as well, so the count of the insertions alone is too small.
C31_RoundTrip == [][RoundTrip(FewInsertions)]_vars

\* The round trip with every access counted holds up to the push that
\* returns a key for the second time, which is the wrap of the key counter.
C31_RoundTripByAccess ==
    [][(NoKeyReused /\ NoKeyReused') => RoundTrip(FewAccesses)]_vars

\* The count of the insertions alone fails before any key is reused, too.
C31_BeforeReuse ==
    [][(NoKeyReused /\ NoKeyReused') => RoundTrip(FewInsertions)]_vars

\* C31: on a cache of capacity c >= 1, after k = push(v), a later
\* get_or_insert(k, f) returns v without calling f as long as fewer than c
\* other keys were put in front of k, by push or by get_or_insert, since k
\* was last accessed; once k has been evicted, get_or_insert(k, f) calls f
\* once and returns the new value.  For any number of calls of push.
C31_ByAccessAnyKeys == [][RoundTrip(FewAccesses)]_vars

\* Keys 0, 1 and 2 were pushed into a cache of capacity 2, which evicted key
\* 0; get_or_insert found the value pushed under key 1, and then called f for
\* key 0 and returned its value.
C31_Witness ==
    /\ capacity = 2 /\ returned = << 0, 1, 2 >>
    /\ call = [op |-> "get_or_insert", key |-> 0, value |-> "w", f_calls |-> 1]
    /\ factory = "w"
    /\ cache = << [key |-> 0, value |-> "w"], [key |-> 1, value |-> "v"] >>
    /\ watch = 1 /\ kept = [values |-> {"v"}, inserted |-> 1, touched |-> {0}]


\* ------------------------------------------------------------------------
\* Positions a and b are joined by a chain of matched pairs.
Chained(a, b) == b \in ChainedTo({a})

\* The positions of the images of a pile.
Members(pile) == { a \in 1..Len(images) : images[a].path \in PathsOf(pile) }

\* The images of a pile are joined by chains of matched pairs: each of them
\* is chained to one member of the pile.
WithinComponent(pile) ==
    \/ Members(pile) = {}
    \/ Members(pile) \subseteq ChainedTo({ CHOOSE a \in Members(pile) : TRUE })

\* C32: two images are in the same pile only if they are joined by a chain
\* of matching pairs, in every state of the fold; the piles of the final list
\* are connected components of the match relation, each component is one
\* pile, and there are as many piles as components.
C32_ConnectedComponents ==
    /\ \A n \in 1..Len(piles) : WithinComponent(piles[n])
    /\ pc \in {"stats", "done"} =>
          /\ \A n \in 1..Len(piles) : PathsOf(piles[n]) \in Components
          /\ \A c \in Components : \E n \in 1..Len(piles) : PathsOf(piles[n]) = c
          /\ Len(piles) = Cardinality(Components)

\* Repository::new has finished on four images of two components, one of
\* three images joined by a chain and one of a single image whose hash
\* equals that of an image of the other pile and which is too far from it
\* in time.
C32_Witness ==
    /\ pc = "done"
    /\ Len(images) = 4 /\ Len(piles) = 2
    /\ \E a, b, c, e \in 1..Len(images) :
          /\ MatchedPair(a, b) /\ MatchedPair(b, c) /\ ~Chained(a, e)
          /\ SamePile(a, c) /\ ~SamePile(a, e)
          /\ images[a].hash = images[e].hash

\* ------------------------------------------------------------------------
\* The seconds between the earliest and the latest timestamp of a pile.
Span(pile) ==
    LET ts == { p.timestamp : p \in pile.pictures }
    IN  MaxOf(ts) - MinOf(ts)

\* C33: in every pile of the final list with k members, the latest and the
\* earliest timestamp are less than (k - 1) x 30 minutes apart for k >= 2 and
\* equal for k = 1.
C33_SpanBound ==
    pc \in {"stats", "done"} =>
        \A n \in 1..Len(piles) :
            LET k == Cardinality(piles[n].pictures)
            IN  /\ k >= 1
                /\ k = 1 => Span(piles[n]) = 0
                /\ k >= 2 => Span(piles[n]) < (k - 1) * TimeWindow

\* A final pile of three images spans 30 minutes, and every matched pair of
\* its images is less than 30 minutes apart.
C33_Witness ==
    /\ pc = "done"
    /\ \E n \in 1..Len(piles) :
          /\ Cardinality(piles[n].pictures) = 3
          /\ Span(piles[n]) >= TimeWindow
          /\ \A a, b \in Members(piles[n]) :
                MatchedPair(a, b) => Abs(images[a].timestamp - images[b].timestamp) < TimeWindow
          /\ \E a, b \in Members(piles[n]) :
                Abs(images[a].timestamp - images[b].timestamp) >= TimeWindow

\* ------------------------------------------------------------------------
\* Two images of the pile at position m have the same file name.
SameBaseName(m) ==
    \E a, b \in piles[m].pictures : a.path # b.path /\ FileName(a.path) = FileName(b.path)

\* The links to the source path.
LinksTo(path) == { l \in destLinks : l.source = path }

\* Every image has exactly one link, under its file name in the directory of
\* its own pile.
EachLinkedOnce ==
    \A m \in 1..Len(piles) : \A image \in piles[m].pictures :
        /\ m <= Len(timestamps)
        /\ LinksTo(image.path) =
             { [dir |-> timestamps[m], name |-> FileName(image.path), source |-> image.path] }

\* No name of a directory stands for two links; create_piles returns Ok only
\* if no pile holds two images of one file name, and after the loops every
\* image has its link.
C35_State ==
    /\ \A l, k \in destLinks : (l.dir = k.dir /\ l.name = k.name) => l = k
    /\ result.state = "ok" => \A m \in 1..Len(piles) : ~SameBaseName(m)
    /\ (result.state = "ok" \/ result.op = "save_to_file") => EachLinkedOnce

\* The step of the inner loop for an image: when a link of its file name is
\* in the directory of the pile, the step returns the error of hard_link and
\* leaves the links as they are; in a pile of distinct file names the name is
\* free; no step removes or replaces a link.
C35_Step ==
    /\ destLinks \subseteq destLinks'
    /\ \A image \in linked' \ linked :
         LET d == timestamps[Len(timestamps)]
             taken == \E l \in destLinks : l.dir = d /\ l.name = FileName(image.path)
         IN  /\ taken => /\ result' = IoError("hard_link")
                         /\ destLinks' = destLinks
                         /\ SameBaseName(Len(timestamps))
             /\ ~SameBaseName(Len(timestamps)) => ~taken

\* C35: if two images of a pile have the same file base name, create_piles
\* returns an error at the second of the two links; it never overwrites the
\* first link and never silently leaves out an image.  If the images of each
\* pile have distinct base names and the destination is empty, every image
\* gets exactly one hard link, in the directory of its own pile.
C35_SameBaseName == [](C35_State) /\ [][C35_Step]_vars

\* The second of two images named x.jpg of one pile was refused: the link of
\* the first is in the directory of the pile, create_piles has returned the
\* error of hard_link.
C35_Witness ==
    /\ result = IoError("hard_link")
    /\ Cardinality(linked) = 2
    /\ \E a, b \in linked :
          /\ a.path # b.path /\ FileName(a.path) = "x.jpg" /\ FileName(b.path) = "x.jpg"
          /\ LinksTo(a.path) # {} /\ LinksTo(b.path) = {}
          /\ \A l \in destLinks : l.dir = timestamps[Len(timestamps)] => l.source = a.path

\* create_piles has returned Ok for two piles of distinct file names each,
\* the name x.jpg being used in both.
C35_Linked ==
    /\ result.state = "ok" /\ Len(piles) = 2 /\ EachLinkedOnce
    /\ Cardinality({ l \in destLinks : l.name = "x.jpg" }) = 2

\* ------------------------------------------------------------------------
\* C34: the older engine, whose merge step calls piles[i].merge(...) right
\* after piles.swap_remove(j) without renumbering i, behaves like the engine
\* of repository.rs on every sequence of matched pairs: it never indexes
\* past the end of the pile vector and it reaches the same partition.
C34_OlderEngine ==
    /\ older_panic = ""
    /\ pc = "done" => Grouping(older_piles) = Grouping(piles)

\* Where the older fold does not panic it keeps the grouping of the fold of
\* repository.rs, step by step.
C34_SameUnlessPanic ==
    older_panic = "" => Grouping(older_piles) = Grouping(piles)

\* The older fold has merged two piles and has returned the partition of the
\* engine of repository.rs.
C34_Merged ==
    /\ pc = "done" /\ older_panic = ""
    /\ Len(older_piles) = 1 /\ Cardinality(matched) = 3
    /\ Grouping(older_piles) = Grouping(piles)

\* The older fold has indexed past the end of the vector on the pair of the
\* images 3 and 4, after the pairs (1, 4) and (2, 3) made two piles.
C34_Panicked ==
    /\ older_panic = "piles[i]" /\ panic = ""
    /\ matched = { << 1, 4 >>, << 2, 3 >>, << 3, 4 >> }
    /\ consumed = matched
    /\ Len(piles) = 1
====
